---- MODULE Spec2Model ----
(***************************************************************************)
(* CalDAV <-> Google Calendar sync service: scheduler (overlap prevention), *)
(* sync engine (fetch, diff, apply, finalize), differ and webhook hand-off. *)
(*                                                                         *)
(* Execution model.  Every coroutine of the service runs on one asyncio    *)
(* event loop.  The CalDAV and Google adapters, the database sessions and  *)
(* time.sleep are blocking calls, so a sync run occupies the loop from the  *)
(* first step of _sync_mapping_with_lock until it suspends in the webhook  *)
(* POST (httpx.AsyncClient.post) or returns.  `loop` names the task that   *)
(* occupies the loop, `ready` is the loop's FIFO queue of runnable tasks.  *)
(***************************************************************************)
EXTENDS Integers, Sequences, FiniteSets, TLC

\* ---------------------------------------------------------------- bounds
NumMappings == 2
MaxTasks == 3
MaxUid == 1
MaxFaults == 1
MaxExternal == 2
MaxApiCalls == 2
MaxStamp == 2
MaxOccur == 2
MaxBatch == 2
MaxPasses == 36

\* ------------------------------------------------------ program constants
\* SyncConfig.max_concurrent_mappings (default)
max_concurrent_mappings == 5
\* job_defaults['max_instances'] / add_job(max_instances=1)
max_instances == 1
\* WebhookConfig.max_retries and WebhookConfig.retry_delays (defaults, seconds)
max_retries == 3
retry_delays == <<30, 300, 1800>>
\* asyncio.sleep(60) of WebhookRetryProcessor._process_loop
retry_interval == 60
\* cleanup_old_retries(days_old=7)
days_old == 7

MappingIds == 1..NumMappings
CapMappingIds == 1..(max_concurrent_mappings + 1)
UIDs == 1..MaxUid
Summaries == {"Meeting", "Lunch"}
\* RRULE property values: none, or a weekly recurrence
Rules == {<<>>, <<"FREQ=WEEKLY">>}
\* The recurrence lists of Google events: none, or the one RRULE line
Recurrences == {IF r = <<>> THEN <<>> ELSE <<(<<"RRULE:">> \o r)>> : r \in Rules}
Directions == {"caldav_to_google", "google_to_caldav", "bidirectional"}
TerminalStatuses == {"success", "partial_failure", "failure"}

VARIABLES
    mappings,         \* calendar_mappings rows, by id
    caldav_accounts,  \* caldav_accounts rows, by id
    google_token,     \* TRUE iff get_valid_credentials() yields credentials
    google_service,   \* TRUE iff GoogleCalendarClient._service is cached
    event_mappings,   \* event_mappings rows (a set of rows, each with an id)
    sync_logs,        \* sync_logs rows, by id
    webhook_retries,  \* webhook_retries rows
    caldav_cal,       \* CalDAV server: mapping id -> set of events
    google_cal,       \* Google server: mapping id -> set of events
    clock,            \* wall clock of the two servers
    externals,        \* number of external calendar edits so far
    api_calls,        \* number of configuration changes through the API so far
    faults,           \* number of adapter calls that failed so far
    jobs,             \* APScheduler job store: mapping ids with a job
    instances,        \* APScheduler executor: job -> running instances
    active_jobs,      \* SyncScheduler.active_jobs (its keys)
    tasks,            \* asyncio tasks running _sync_mapping_with_lock
    run,              \* frames of SyncEngine.sync_mapping, by task id
    loop,             \* task occupying the event loop, 0 when idle
    ready,            \* FIFO queue of runnable tasks of the event loop
    next_task,        \* id of the next asyncio task (a run's SyncLog takes its id)
    next_id,          \* id generator of EventMapping rows and Google events
    task_limit        \* number of asyncio tasks a behaviour may create

dbVars == <<mappings, caldav_accounts, google_token, event_mappings, sync_logs,
           webhook_retries>>
worldVars == <<caldav_cal, google_cal, clock, externals, api_calls, faults>>
schedVars == <<jobs, instances, active_jobs>>
loopVars == <<tasks, run, loop, ready>>
idVars == <<next_task, next_id, task_limit>>
vars == <<dbVars, google_service, worldVars, schedVars, loopVars, idVars>>

\* ---------------------------------------------------------------- helpers
Remove(f, k) == [x \in (DOMAIN f) \ {k} |-> f[x]]

\* ------------------------------------------------------------ event model
\* Optional values: <<>> is None, <<x>> is x.  Timestamps: 0 is None.
\* An rrule is a sequence of text tokens (<<>> when absent); a Google
\* recurrence is a list of lines, each a sequence of text tokens.  The
\* summary stands for every field both conversions copy unchanged
\* (summary, description, location, start, end, all_day, timezone).
None == <<>>

Some(x) == <<x>>

IsSome(o) == o # <<>>

CalDAVEvent(uid, summary, rrule, modified) ==
    [uid |-> uid, summary |-> summary, rrule |-> rrule, last_modified |-> modified]

GoogleEvent(id, uid, summary, recurrence, updated) ==
    [id |-> id, uid |-> uid, summary |-> summary, recurrence |-> recurrence,
     updated |-> updated]

RECURSIVE JoinLines(_)
\* "|".join(lines)
JoinLines(lines) ==
    IF lines = <<>> THEN <<>>
    ELSE IF Len(lines) = 1 THEN lines[1]
    ELSE lines[1] \o <<"|">> \o JoinLines(Tail(lines))

\* CalDAVEvent.get_content_hash
CalDAVHash(e) == <<e.uid, e.summary, e.rrule>>

\* GoogleCalendarEvent.get_content_hash
GoogleHash(g) == <<g.uid, g.summary, JoinLines(g.recurrence)>>

\* EventNormalizer.caldav_to_google: the result has no id and no updated
caldav_to_google(e) ==
    GoogleEvent(0, e.uid, e.summary,
                IF e.rrule # <<>> THEN <<(<<"RRULE:">> \o e.rrule)>> ELSE <<>>,
                0)

RECURSIVE FirstRRule(_)
FirstRRule(lines) ==
    IF lines = <<>> THEN <<>>
    ELSE IF lines[1] # <<>> /\ lines[1][1] = "RRULE:" THEN Tail(lines[1])
    ELSE FirstRRule(Tail(lines))

\* EventNormalizer.google_to_caldav
google_to_caldav(g) ==
    CalDAVEvent(IF g.uid # 0 THEN g.uid ELSE g.id, g.summary,
                FirstRRule(g.recurrence), g.updated)

\* ------------------------------------------------------------------ differ
EventChange(action, uid, c, g, m, resolution, reason) ==
    [action |-> action, event_uid |-> uid, caldav_event |-> c, google_event |-> g,
     existing_mapping |-> m, conflict_resolution |-> resolution, reason |-> reason]

\* dict built by a comprehension over a list: the last entry with the key
RECURSIVE DictGet(_, _, _)
DictGet(s, field, key) ==
    IF s = <<>> THEN None
    ELSE IF s[Len(s)][field] = key THEN Some(s[Len(s)])
    ELSE DictGet(SubSeq(s, 1, Len(s) - 1), field, key)

\* A resolver that lets Google win the ties
_resolve_conflict_tie_google(c, g) ==
    IF c.last_modified # 0 /\ g.updated # 0
    THEN IF c.last_modified > g.updated THEN "caldav_wins" ELSE "google_wins"
    ELSE IF c.last_modified # 0 THEN "caldav_wins"
    ELSE IF g.updated # 0 THEN "google_wins"
    ELSE "caldav_wins"

\* EventDiffer._resolve_conflict
_resolve_conflict(c, g) ==
    IF c.last_modified # 0 /\ g.updated # 0
    THEN IF c.last_modified > g.updated THEN "caldav_wins"
         ELSE IF g.updated > c.last_modified THEN "google_wins"
         ELSE "caldav_wins"
    ELSE IF c.last_modified # 0 THEN "caldav_wins"
    ELSE IF g.updated # 0 THEN "google_wins"
    ELSE "caldav_wins"

\* ConflictResolver.resolve_conflict: the winner; `changes` is whether the
\* list of detected changes is non-empty
resolve_conflict(c, g, changes) ==
    IF ~changes THEN "none"
    ELSE IF c.last_modified # 0 /\ g.updated # 0
    THEN IF c.last_modified > g.updated THEN "caldav"
         ELSE IF g.updated > c.last_modified THEN "google"
         ELSE "caldav"
    ELSE IF c.last_modified # 0 THEN "caldav"
    ELSE IF g.updated # 0 THEN "google"
    ELSE "caldav"

\* EventDiffer._analyze_conflict_or_update
_analyze_conflict_or_update(c, g, m) ==
    LET last_caldav_sync == IF IsSome(m) THEN m[1].last_caldav_modified ELSE 0
        last_google_sync == IF IsSome(m) THEN m[1].last_google_updated ELSE 0
        caldav_ts == last_caldav_sync = 0
                       \/ (c.last_modified # 0 /\ c.last_modified > last_caldav_sync)
        google_ts == last_google_sync = 0
                       \/ (g.updated # 0 /\ g.updated > last_google_sync)
        fallback == ~caldav_ts /\ ~google_ts
        mapping_hash == IF IsSome(m) THEN m[1].event_hash ELSE <<>>
        caldav_has_changes ==
            IF fallback
            THEN IF mapping_hash # <<>> THEN CalDAVHash(c) # mapping_hash
                 ELSE CalDAVHash(c) # GoogleHash(g)
            ELSE caldav_ts
        google_has_changes ==
            IF fallback
            THEN IF mapping_hash # <<>> THEN GoogleHash(g) # mapping_hash ELSE FALSE
            ELSE google_ts
    IN  IF ~caldav_has_changes /\ ~google_has_changes
        THEN EventChange("no_change", c.uid, Some(c), Some(g), m, "none",
                         "No changes detected")
        ELSE IF caldav_has_changes /\ ~google_has_changes
        THEN EventChange("update", c.uid, Some(c), Some(g), m, "none",
                         "CalDAV event updated")
        ELSE IF google_has_changes /\ ~caldav_has_changes
        THEN EventChange("update", c.uid, Some(c), Some(g), m, "none",
                         "Google event updated")
        ELSE EventChange("update", c.uid, Some(c), Some(g), m, _resolve_conflict(c, g),
                         "Conflict detected - both events modified")

\* EventDiffer._analyze_event_pair; <<>> when it returns None
_analyze_event_pair(c, g, m) ==
    IF ~IsSome(c) /\ ~IsSome(g) THEN None
    ELSE IF IsSome(c) /\ ~IsSome(g)
    THEN Some(EventChange("insert", c[1].uid, c, None, m, "none", "New CalDAV event"))
    ELSE IF IsSome(g) /\ ~IsSome(c)
    THEN Some(EventChange("insert", g[1].uid, None, g, m, "none", "New Google event"))
    ELSE Some(_analyze_conflict_or_update(c[1], g[1], m))

\* EventDiffer._should_sync_to_google
_should_sync_to_google(direction, change) ==
    IF direction = "google_to_caldav" THEN FALSE
    ELSE IF change.conflict_resolution = "caldav_wins" THEN TRUE
    ELSE IF change.conflict_resolution = "google_wins" THEN FALSE
    ELSE direction \in {"caldav_to_google", "bidirectional"}

\* EventDiffer._should_sync_to_caldav
_should_sync_to_caldav(direction, change) ==
    IF direction = "caldav_to_google" THEN FALSE
    ELSE IF change.conflict_resolution = "google_wins" THEN TRUE
    ELSE IF change.conflict_resolution = "caldav_wins" THEN FALSE
    ELSE direction \in {"google_to_caldav", "bidirectional"}

\* Index positions of a list whose uid is not seen earlier in the list
FirstSeen(s, i) == \A j \in 1..(i - 1) : s[j].uid # s[i].uid

RECURSIVE Concat(_)
Concat(ss) == IF ss = <<>> THEN <<>> ELSE ss[1] \o Concat(Tail(ss))

\* The change of one CalDAV event in the first loop of
\* analyze_bidirectional_changes (<<>> when the event is skipped)
BidiCalDAVChange(c, google_events, existing_mappings) ==
    LET by_uid == DictGet(google_events, "uid", c.uid)
        mapping == DictGet(existing_mappings, "caldav_uid", c.uid)
        g == IF IsSome(mapping) /\ mapping[1].google_event_id # 0 /\ ~IsSome(by_uid)
             THEN DictGet(google_events, "id", mapping[1].google_event_id)
             ELSE by_uid
    IN  _analyze_event_pair(Some(c), g, mapping)

\* The change of one Google event in the second loop
BidiGoogleChange(g, existing_mappings) ==
    LET mapping == IF g.id # 0 THEN DictGet(existing_mappings, "google_event_id", g.id)
                   ELSE None
    IN  _analyze_event_pair(None, Some(g), mapping)

\* EventDiffer.analyze_bidirectional_changes
analyze_bidirectional_changes(direction, caldav_events, google_events, existing_mappings) ==
    LET caldav_uids == {caldav_events[i].uid : i \in 1..Len(caldav_events)}
        google_uids == {google_events[i].uid : i \in 1..Len(google_events)} \ {0}
        processed_uids == caldav_uids \cup google_uids
        first == [i \in 1..Len(caldav_events) |->
                    IF FirstSeen(caldav_events, i)
                    THEN BidiCalDAVChange(caldav_events[i], google_events, existing_mappings)
                    ELSE None]
        second == [i \in 1..Len(google_events) |->
                    IF google_events[i].uid # 0
                       /\ google_events[i].uid \notin caldav_uids
                       /\ FirstSeen(google_events, i)
                    THEN BidiGoogleChange(google_events[i], existing_mappings)
                    ELSE None]
        is_conflict(ch) == ch.conflict_resolution # "none"
        to_google(ch) == ~is_conflict(ch) /\ ch.action # "no_change"
                            /\ _should_sync_to_google(direction, ch)
        to_caldav1(ch) == ~is_conflict(ch) /\ ch.action # "no_change"
                            /\ ~_should_sync_to_google(direction, ch)
                            /\ _should_sync_to_caldav(direction, ch)
        to_caldav2(ch) == ch.action # "no_change" /\ _should_sync_to_caldav(direction, ch)
        orphans == [i \in 1..Len(existing_mappings) |->
                      IF existing_mappings[i].caldav_uid \notin processed_uids
                      THEN Some(EventChange("delete", existing_mappings[i].caldav_uid,
                                            None, None, Some(existing_mappings[i]), "none",
                                            "Event no longer exists in either system"))
                      ELSE None]
    IN  [caldav_to_google |-> SelectSeq(Concat(first), to_google) \o Concat(orphans),
         google_to_caldav |-> SelectSeq(Concat(first), to_caldav1)
                                \o SelectSeq(Concat(second), to_caldav2),
         conflicts |-> SelectSeq(Concat(first), is_conflict)]

\* EventDiffer._analyze_caldav_to_google_change
_analyze_caldav_to_google_change(c, g, m) ==
    IF ~IsSome(g)
    THEN EventChange("insert", c.uid, Some(c), None, m, "none",
                     "New CalDAV event to sync to Google")
    ELSE IF IsSome(m) /\ m[1].last_caldav_modified # 0 /\ c.last_modified # 0
            /\ c.last_modified <= m[1].last_caldav_modified
    THEN EventChange("no_change", c.uid, Some(c), g, m, "none", "No changes in CalDAV event")
    ELSE IF IsSome(m) /\ m[1].event_hash = CalDAVHash(c)
    THEN EventChange("no_change", c.uid, Some(c), g, m, "none", "No content changes detected")
    ELSE EventChange("update", c.uid, Some(c), g, m, "none", "CalDAV event updated")

\* EventDiffer._analyze_google_to_caldav_change
_analyze_google_to_caldav_change(g, c, m) ==
    LET uid == IF g.uid # 0 THEN g.uid ELSE g.id
    IN  IF ~IsSome(c)
        THEN EventChange("insert", uid, None, Some(g), m, "none",
                         "New Google event to sync to CalDAV")
        ELSE IF IsSome(m) /\ m[1].last_google_updated # 0 /\ g.updated # 0
                /\ g.updated <= m[1].last_google_updated
        THEN EventChange("no_change", uid, c, Some(g), m, "none", "No changes in Google event")
        ELSE IF IsSome(m) /\ m[1].event_hash = GoogleHash(g)
        THEN EventChange("no_change", uid, c, Some(g), m, "none", "No content changes detected")
        ELSE EventChange("update", uid, c, Some(g), m, "none", "Google event updated")

\* EventDiffer.analyze_unidirectional_changes
analyze_unidirectional_changes(source_events, target_events, existing_mappings, direction) ==
    LET source_uids == {source_events[i].uid : i \in 1..Len(source_events)} \ {0}
        from_source == [i \in 1..Len(source_events) |->
            LET e == source_events[i]
                target == DictGet(target_events, "uid", e.uid)
                mapping == DictGet(existing_mappings, "caldav_uid", e.uid)
            IN  IF e.uid = 0 THEN None
                ELSE IF direction = "caldav_to_google"
                THEN Some(_analyze_caldav_to_google_change(e, target, mapping))
                ELSE Some(_analyze_google_to_caldav_change(e, target, mapping))]
        deletions == [i \in 1..Len(target_events) |->
            LET uid == target_events[i].uid
                mapping == DictGet(existing_mappings, "caldav_uid", uid)
            IN  IF uid # 0 /\ uid \notin source_uids /\ IsSome(mapping)
                THEN Some(EventChange("delete", uid, None, None, mapping, "none",
                                      "Event deleted from source"))
                ELSE None]
    IN  SelectSeq(Concat(from_source), LAMBDA ch : ch.action # "no_change")
           \o Concat(deletions)

\* ------------------------------------------------------------- scheduler
\* The check of active_jobs left out
AlreadyActiveNever(m) == FALSE

\* `mapping_id in self.active_jobs`
AlreadyActive(m) == m \in active_jobs

\* APScheduler refuses to submit a job that has max_instances running
MaxInstancesReached(m) == instances[m] >= max_instances

MappingRunnable(m) == m \in DOMAIN mappings /\ mappings[m].enabled

\* An asyncio task created for _sync_mapping_with_lock(m); fired_in_flight
\* records whether a run of m was in flight when the task was created
NewTask(m, kind, inflight) ==
    [mapping_id |-> m, kind |-> kind, pc |-> "created", fired_in_flight |-> inflight]

RunInFlight(m) == \E t \in DOMAIN run : run[t].mapping.id = m

\* SyncScheduler.trigger_manual_sync, called from a request handler
TriggerManual(m) ==
    /\ loop = 0
    /\ next_task <= task_limit
    /\ IF AlreadyActive(m) \/ ~MappingRunnable(m)
       THEN UNCHANGED <<tasks, ready, next_task>>
       ELSE /\ tasks' = (next_task :> NewTask(m, "manual", FALSE)) @@ tasks
            /\ ready' = Append(ready, next_task)
            /\ next_task' = next_task + 1
    /\ UNCHANGED <<dbVars, google_service, worldVars, schedVars, run, loop, next_id,
                   task_limit>>

\* The interval trigger of job sync_mapping_<m> fires
Tick(m) ==
    /\ loop = 0
    /\ m \in jobs
    /\ next_task <= task_limit
    /\ IF MaxInstancesReached(m)
       THEN UNCHANGED <<tasks, ready, next_task, instances>>
       ELSE /\ tasks' = (next_task :> NewTask(m, "periodic", RunInFlight(m))) @@ tasks
            /\ ready' = Append(ready, next_task)
            /\ next_task' = next_task + 1
            /\ instances' = [instances EXCEPT ![m] = @ + 1]
    /\ UNCHANGED <<dbVars, google_service, worldVars, jobs, active_jobs, run, loop, next_id,
                   task_limit>>

\* --------------------------------------------------------------- database
EventMappingRow(id, m, uid, gid, cmod, gupd, direction, hash) ==
    [id |-> id, mapping_id |-> m, caldav_uid |-> uid, google_event_id |-> gid,
     last_caldav_modified |-> cmod, last_google_updated |-> gupd,
     sync_direction_last |-> direction, event_hash |-> hash]

SyncLogRow(m, direction, status) ==
    [mapping_id |-> m, direction |-> direction, status |-> status,
     inserted_count |-> 0, updated_count |-> 0, deleted_count |-> 0,
     error_count |-> 0, errors |-> 0, webhook_sent |-> FALSE, webhook_status |-> "none"]

RECURSIVE SortedById(_)
\* query(...).all(): rows in insertion (rowid) order
SortedById(S) ==
    IF S = {} THEN <<>>
    ELSE LET r == CHOOSE x \in S : \A y \in S : x.id <= y.id
         IN  <<r>> \o SortedById(S \ {r})

MappingRows(m) == {r \in event_mappings : r.mapping_id = m}

\* All listings of a set of events, one per order a server may return
Orderings(S) ==
    {s \in [1..Cardinality(S) -> S] : \A i, j \in 1..Cardinality(S) : s[i] = s[j] => i = j}

\* An upsert that never looks for the existing row
UpsertEventMappingInsert(rows, id, m, uid, gid, cmod, gupd, direction, hash) ==
    rows \cup {EventMappingRow(id, m, uid, gid, cmod, gupd, direction, hash)}

\* SyncEngine._update_event_mapping: the rows after the upsert
UpsertEventMapping(rows, id, m, uid, gid, cmod, gupd, direction, hash) ==
    LET found == {r \in rows : r.mapping_id = m /\ r.caldav_uid = uid}
    IN  IF found # {}
        THEN LET existing == CHOOSE x \in found : \A y \in found : x.id <= y.id
             IN  (rows \ {existing})
                   \cup {EventMappingRow(existing.id, m, uid, gid, cmod, gupd, direction, hash)}
        ELSE rows \cup {EventMappingRow(id, m, uid, gid, cmod, gupd, direction, hash)}

\* SyncEngine._delete_event_mapping
DeleteEventMapping(rows, id) == {r \in rows : r.id # id}

\* --------------------------------------------------------------- adapters
\* The result of one adapter call: whether the server accepts it and the
\* calendar afterwards; `event` is the event the server returns.
AdapterResult(ok, cal, event) == [ok |-> ok, cal |-> cal, event |-> event]

\* GoogleCalendarClient.create_event: events().insert; the server refuses an
\* iCalUID the calendar already holds and stamps id and updated
GoogleCreate(cal, event, id, now) ==
    LET created == [event EXCEPT !.id = id, !.updated = now]
    IN  IF \E g \in cal : g.uid = event.uid
        THEN AdapterResult(FALSE, cal, created)
        ELSE AdapterResult(TRUE, cal \cup {created}, created)

\* GoogleCalendarClient.update_event: events().update of event.id
GoogleUpdate(cal, event, now) ==
    LET updated == [event EXCEPT !.updated = now]
    IN  IF \E g \in cal : g.id = event.id
        THEN AdapterResult(TRUE, {g \in cal : g.id # event.id} \cup {updated}, updated)
        ELSE AdapterResult(FALSE, cal, updated)

\* GoogleCalendarClient.delete_event: _execute_with_retry turns the 404 of a
\* missing event into GoogleCalendarEventError before the 404 branch is tried
GoogleDelete(cal, id) ==
    IF \E g \in cal : g.id = id
    THEN AdapterResult(TRUE, {g \in cal : g.id # id}, None)
    ELSE AdapterResult(FALSE, cal, None)

\* CalDAVClient.create_event: calendar.add_event(ical) stores <uid>.ics
CalDAVCreate(cal, event) ==
    AdapterResult(TRUE, {c \in cal : c.uid # event.uid} \cup {event}, event)

\* CalDAVClient.update_event: event_by_uid, then save
CalDAVUpdate(cal, event) ==
    IF \E c \in cal : c.uid = event.uid
    THEN AdapterResult(TRUE, {c \in cal : c.uid # event.uid} \cup {event}, event)
    ELSE AdapterResult(FALSE, cal, event)

\* CalDAVClient.delete_event: a missing event counts as deleted
CalDAVDelete(cal, uid) == AdapterResult(TRUE, {c \in cal : c.uid # uid}, None)

\* ----------------------------------------------------------------- engine
SyncResult ==
    [status |-> "failure", inserted_count |-> 0, updated_count |-> 0,
     deleted_count |-> 0, error_count |-> 0, errors |-> 0]

\* The frame of one sync_mapping call: its arguments and locals; `db` tells
\* whether a `with next(get_db()) as db` block of the call is open
NewFrame(m) ==
    [mapping |-> [id |-> m, sync_direction |-> mappings[m].sync_direction,
                  webhook_url |-> mappings[m].webhook_url,
                  caldav_account_id |-> mappings[m].caldav_account_id],
     sync_log_id |-> 0,
     sync_log |-> SyncLogRow(m, mappings[m].sync_direction, "running"),
     db_account |-> None,
     caldav_events |-> <<>>, google_events |-> <<>>, existing_mappings |-> <<>>,
     to_google |-> <<>>, to_caldav |-> <<>>, conflicts |-> <<>>,
     result |-> SyncResult, raised |-> FALSE, io |-> <<>>, webhook_ok |-> FALSE,
     db |-> FALSE]

\* One adapter call of a run: `ok` tells whether it returned (TRUE) or raised
IO(op, side, uid) == [op |-> op, side |-> side, uid |-> uid, ok |-> TRUE]

Holds(t, pc) == t \in DOMAIN tasks /\ loop = t /\ tasks[t].pc = pc

Goto(t, pc) == tasks' = [tasks EXCEPT ![t].pc = pc]

\* _sync_mapping_with_lock returns (or never ran the engine): the task ends
EndTask(t) ==
    /\ tasks' = Remove(tasks, t)
    /\ instances' = IF tasks[t].kind = "periodic"
                    THEN [instances EXCEPT ![tasks[t].mapping_id] = @ - 1]
                    ELSE instances

\* First step of _sync_mapping_with_lock, up to the call of sync_mapping
TaskStart(t) ==
    /\ loop = 0
    /\ ready # <<>> /\ Head(ready) = t
    /\ tasks[t].pc = "created"
    /\ ready' = Tail(ready)
    /\ LET m == tasks[t].mapping_id
       IN  IF AlreadyActive(m)
           THEN /\ EndTask(t)
                /\ UNCHANGED <<active_jobs, run, loop>>
           ELSE IF ~MappingRunnable(m)
           THEN /\ EndTask(t)
                /\ UNCHANGED <<active_jobs, run, loop>>
           ELSE /\ active_jobs' = active_jobs \cup {m}
                /\ Goto(t, "open")
                /\ run' = (t :> NewFrame(m)) @@ run
                /\ loop' = t
                /\ UNCHANGED instances
    /\ UNCHANGED <<dbVars, google_service, worldVars, jobs, idVars>>

\* except Exception in sync_mapping: status failure, the message appended
Raise(frame) ==
    [frame EXCEPT !.raised = TRUE, !.result.status = "failure", !.result.errors = @ + 1]

\* sync_mapping: insert the SyncLog row with status running.  db.add and
\* db.commit stand inside the try block: when they raise (`ok` false) no row
\* exists, sync_log.id stays None (0 here), and control passes to the
\* except branch and then to the finally block.
RunOpenSyncLog(t) ==
    /\ Holds(t, "open")
    /\ \E ok \in BOOLEAN :
          /\ ~ok => faults < MaxFaults
          /\ faults' = IF ok THEN faults ELSE faults + 1
          /\ IF ok
             THEN /\ sync_logs' = (t :> run[t].sync_log) @@ sync_logs
                  /\ run' = [run EXCEPT ![t].sync_log_id = t]
                  /\ Goto(t, "fetch")
             ELSE /\ run' = [run EXCEPT ![t] = Raise(@)]
                  /\ Goto(t, "finalize")
                  /\ UNCHANGED sync_logs
    /\ UNCHANGED <<mappings, caldav_accounts, google_token, event_mappings, webhook_retries,
                   google_service, caldav_cal, google_cal, clock, externals, api_calls,
                   schedVars, loop, ready, idVars>>

\* get_events: date_search(expand=True) on CalDAV and events().list with
\* singleEvents=True on Google return a recurring event once per
\* occurrence in the sync window, every occurrence under the UID of the
\* series; the model does not tell the occurrences apart.  `recurs` names
\* the field that holds the recurrence, `k` is the number of occurrences.
Listing(order, recurs, k) ==
    Concat([i \in 1..Len(order) |->
               IF order[i][recurs] # <<>> THEN [j \in 1..k |-> order[i]]
               ELSE <<order[i]>>])

Listings(S, recurs) ==
    {Listing(order, recurs, k) : order \in Orderings(S), k \in 1..MaxOccur}

\* _sync_caldav_to_google / _sync_google_to_caldav / _sync_bidirectional up
\* to the two get_events_by_sync_window calls.  caldav_ok and google_ok are
\* the outcomes of the two HTTP exchanges.
RunFetch(t) ==
    /\ Holds(t, "fetch")
    /\ \E caldav_ok, google_ok \in BOOLEAN,
          ce \in Listings(caldav_cal[run[t].mapping.id], "rrule"),
          ge \in Listings(google_cal[run[t].mapping.id], "recurrence") :
        LET f == run[t]
            account_id == f.mapping.caldav_account_id
            has_account == account_id \in DOMAIN caldav_accounts
            google_first == f.mapping.sync_direction = "google_to_caldav"
            \* GoogleCalendarClient._get_service
            service == google_service \/ google_token
            google_done == service /\ google_token /\ google_ok
            caldav_reached == has_account /\ (google_first => google_done)
            google_reached == has_account /\ (~google_first => caldav_ok)
            google_sent == google_reached /\ service
            injected == (IF caldav_reached /\ ~caldav_ok THEN 1 ELSE 0)
                        + (IF google_sent /\ google_token /\ ~google_ok THEN 1 ELSE 0)
            fetched == caldav_reached /\ caldav_ok /\ google_reached /\ google_done
            caldav_get == [IO("get_events", "caldav", 0) EXCEPT !.ok = caldav_ok]
            google_get == [IO("get_events", "google", 0) EXCEPT !.ok = google_done]
            calls == IF google_first
                     THEN (IF google_sent THEN <<google_get>> ELSE <<>>)
                          \o (IF caldav_reached THEN <<caldav_get>> ELSE <<>>)
                     ELSE (IF caldav_reached THEN <<caldav_get>> ELSE <<>>)
                          \o (IF google_sent THEN <<google_get>> ELSE <<>>)
            loaded == [f EXCEPT !.db_account = IF has_account
                                               THEN Some(caldav_accounts[account_id])
                                               ELSE None,
                                !.io = @ \o calls]
        IN  /\ faults + injected <= MaxFaults
            /\ faults' = faults + injected
            /\ google_service' = IF google_reached THEN service /\ google_token
                                 ELSE google_service
            /\ IF fetched
               THEN /\ run' = [run EXCEPT ![t] = [loaded EXCEPT !.caldav_events = ce,
                                                                !.google_events = ge]]
                    /\ Goto(t, "diff")
               ELSE /\ run' = [run EXCEPT ![t] = Raise(loaded)]
                    /\ Goto(t, "finalize")
    /\ UNCHANGED <<dbVars, caldav_cal, google_cal, clock, externals, api_calls, schedVars,
                   loop, ready, idVars>>

\* A dispatch that hands the changes of a one-way run to the other side
DiffedCrossed(f, existing) ==
    LET direction == f.mapping.sync_direction
    IN  IF direction = "bidirectional"
        THEN LET bidi == analyze_bidirectional_changes(direction, f.caldav_events,
                                                       f.google_events, existing)
             IN  [f EXCEPT !.existing_mappings = existing,
                           !.to_google = bidi.caldav_to_google,
                           !.to_caldav = bidi.google_to_caldav,
                           !.conflicts = bidi.conflicts]
        ELSE IF direction = "caldav_to_google"
        THEN [f EXCEPT !.existing_mappings = existing,
                       !.to_caldav = analyze_unidirectional_changes(
                                         f.caldav_events, f.google_events, existing,
                                         "caldav_to_google")]
        ELSE [f EXCEPT !.existing_mappings = existing,
                       !.to_google = analyze_unidirectional_changes(
                                         f.google_events, f.caldav_events, existing,
                                         "google_to_caldav")]

\* The query of the EventMapping rows and the call of the differ: the
\* frame with the three change lists
Diffed(f, existing) ==
    LET direction == f.mapping.sync_direction
    IN  IF direction = "bidirectional"
        THEN LET bidi == analyze_bidirectional_changes(direction, f.caldav_events,
                                                       f.google_events, existing)
             IN  [f EXCEPT !.existing_mappings = existing,
                           !.to_google = bidi.caldav_to_google,
                           !.to_caldav = bidi.google_to_caldav,
                           !.conflicts = bidi.conflicts]
        ELSE IF direction = "caldav_to_google"
        THEN [f EXCEPT !.existing_mappings = existing,
                       !.to_google = analyze_unidirectional_changes(
                                         f.caldav_events, f.google_events, existing,
                                         "caldav_to_google")]
        ELSE [f EXCEPT !.existing_mappings = existing,
                       !.to_caldav = analyze_unidirectional_changes(
                                         f.google_events, f.caldav_events, existing,
                                         "google_to_caldav")]

NothingToApply(f) == f.to_google = <<>> /\ f.to_caldav = <<>> /\ f.conflicts = <<>>

RunDiff(t) ==
    /\ Holds(t, "diff")
    /\ \E f \in {run[t]}, existing \in {SortedById(MappingRows(run[t].mapping.id))} :
          \E d \in {Diffed(f, existing)} :
            /\ run' = [run EXCEPT ![t] = d]
            /\ Goto(t, IF NothingToApply(d) THEN "finalize" ELSE "apply")
    /\ UNCHANGED <<dbVars, google_service, worldVars, schedVars, loop, ready, idVars>>

\* What one iteration of an apply loop does when no call fails for a reason
\* outside the model of the two servers: the adapter call (<<>> when the
\* branch makes none), whether the server accepts it, the calendars and the
\* event_mappings rows after it, and the counter of the result it increments.
Effect(call, ok, google, caldav, rows, counter) ==
    [call |-> call, ok |-> ok, google |-> google, caldav |-> caldav, rows |-> rows,
     counter |-> counter]

NoEffect(m) == Effect(None, TRUE, google_cal[m], caldav_cal[m], event_mappings, "none")

\* The branch of _apply_changes_to_google / _handle_conflicts (caldav_wins)
\* that writes the CalDAV event to Google
PushToGoogle(m, ch, id, now) ==
    LET c == ch.caldav_event[1]
        r == IF ch.action = "insert"
             THEN GoogleCreate(google_cal[m], caldav_to_google(c), id, now)
             ELSE GoogleUpdate(google_cal[m],
                               [caldav_to_google(c) EXCEPT !.id = ch.google_event[1].id], now)
    IN  Effect(Some(IO(IF ch.action = "insert" THEN "create_event" ELSE "update_event",
                       "google", c.uid)),
               r.ok, r.cal, caldav_cal[m],
               UpsertEventMapping(event_mappings, id + 1, m, c.uid, r.event.id,
                                  c.last_modified, r.event.updated, "caldav_to_google",
                                  CalDAVHash(c)),
               IF ch.action = "insert" THEN "inserted_count" ELSE "updated_count")

\* The branch of _apply_changes_to_caldav / _handle_conflicts (google_wins)
\* that writes the Google event to CalDAV
PushToCalDAV(m, ch, id) ==
    LET g == ch.google_event[1]
        caldav_event == google_to_caldav(g)
        r == IF ch.action = "insert" THEN CalDAVCreate(caldav_cal[m], caldav_event)
             ELSE CalDAVUpdate(caldav_cal[m], caldav_event)
    IN  Effect(Some(IO(IF ch.action = "insert" THEN "create_event" ELSE "update_event",
                       "caldav", caldav_event.uid)),
               r.ok, google_cal[m], r.cal,
               UpsertEventMapping(event_mappings, id, m, caldav_event.uid, g.id,
                                  caldav_event.last_modified, g.updated, "google_to_caldav",
                                  GoogleHash(g)),
               IF ch.action = "insert" THEN "inserted_count" ELSE "updated_count")

\* SyncEngine._apply_changes_to_google, one iteration
_apply_changes_to_google(m, ch, id, now) ==
    IF ch.action = "insert"
    THEN IF IsSome(ch.caldav_event) THEN PushToGoogle(m, ch, id, now) ELSE NoEffect(m)
    ELSE IF ch.action = "update"
    THEN IF IsSome(ch.caldav_event) /\ IsSome(ch.google_event)
         THEN PushToGoogle(m, ch, id, now) ELSE NoEffect(m)
    ELSE IF ch.action = "delete"
    THEN IF IsSome(ch.existing_mapping) /\ ch.existing_mapping[1].google_event_id # 0
         THEN LET r == GoogleDelete(google_cal[m], ch.existing_mapping[1].google_event_id)
              IN  Effect(Some(IO("delete_event", "google", ch.event_uid)), r.ok, r.cal,
                         caldav_cal[m],
                         DeleteEventMapping(event_mappings, ch.existing_mapping[1].id),
                         "deleted_count")
         ELSE NoEffect(m)
    ELSE NoEffect(m)

\* SyncEngine._apply_changes_to_caldav, one iteration
_apply_changes_to_caldav(m, ch, id) ==
    IF ch.action = "insert"
    THEN IF IsSome(ch.google_event) THEN PushToCalDAV(m, ch, id) ELSE NoEffect(m)
    ELSE IF ch.action = "update"
    THEN IF IsSome(ch.google_event) /\ IsSome(ch.caldav_event)
         THEN PushToCalDAV(m, ch, id) ELSE NoEffect(m)
    ELSE IF ch.action = "delete"
    THEN IF IsSome(ch.existing_mapping)
         THEN LET r == CalDAVDelete(caldav_cal[m], ch.existing_mapping[1].caldav_uid)
              IN  Effect(Some(IO("delete_event", "caldav", ch.existing_mapping[1].caldav_uid)),
                         r.ok, google_cal[m], r.cal,
                         DeleteEventMapping(event_mappings, ch.existing_mapping[1].id),
                         "deleted_count")
         ELSE NoEffect(m)
    ELSE NoEffect(m)

\* Conflict handling that applies the losing side
_handle_conflicts_loser(m, ch, id, now) ==
    IF ~(IsSome(ch.caldav_event) /\ IsSome(ch.google_event)) THEN NoEffect(m)
    ELSE IF ch.conflict_resolution = "caldav_wins" THEN PushToCalDAV(m, ch, id)
    ELSE IF ch.conflict_resolution = "google_wins" THEN PushToGoogle(m, ch, id, now)
    ELSE NoEffect(m)

\* SyncEngine._handle_conflicts, one iteration
_handle_conflicts(m, ch, id, now) ==
    IF ~(IsSome(ch.caldav_event) /\ IsSome(ch.google_event)) THEN NoEffect(m)
    ELSE IF ch.conflict_resolution = "caldav_wins" THEN PushToGoogle(m, ch, id, now)
    ELSE IF ch.conflict_resolution = "google_wins" THEN PushToCalDAV(m, ch, id)
    ELSE NoEffect(m)

\* A failure that ends the run: the changes not yet applied are dropped
ChangeFailedAbort(frame) ==
    [frame EXCEPT !.result.error_count = @ + 1, !.result.errors = @ + 1,
                  !.to_google = <<>>, !.to_caldav = <<>>, !.conflicts = <<>>]

\* except Exception inside the for loop of an apply function: the error is
\* counted, its message appended, and the loop goes on
ChangeFailed(frame) ==
    [frame EXCEPT !.result.error_count = @ + 1, !.result.errors = @ + 1]

\* The loops of _apply_changes_to_google, _apply_changes_to_caldav and
\* _handle_conflicts, in the order the engine calls them: one iteration.
\* `fail` is a call that fails although the server would accept it; `auth`
\* is the failure of a Google call whose refresh token was revoked; `dbfail`
\* is the adapter call that returns followed by a write of event_mappings
\* (_update_event_mapping, _delete_event_mapping) that raises.
RunApply(t) ==
    /\ Holds(t, "apply")
    /\ \E fail \in BOOLEAN, auth \in BOOLEAN, dbfail \in BOOLEAN, f \in {run[t]} :
      \E phase \in {IF f.to_google # <<>> THEN "to_google"
                    ELSE IF f.to_caldav # <<>> THEN "to_caldav" ELSE "conflicts"} :
      \E ch \in {Head(f[phase])} :
      \E e \in {IF phase = "to_google"
                 THEN _apply_changes_to_google(f.mapping.id, ch, next_id, clock + 1)
                 ELSE IF phase = "to_caldav"
                 THEN _apply_changes_to_caldav(f.mapping.id, ch, next_id)
                 ELSE _handle_conflicts(f.mapping.id, ch, next_id, clock + 1)} :
        LET m == f.mapping.id
            google_call == IsSome(e.call) /\ e.call[1].side = "google"
            \* GoogleCalendarClient._get_service raises without credentials
            blocked == google_call /\ ~(google_service \/ google_token)
            \* _execute_with_retry: invalid_grant, the service is dropped
            denied == google_call /\ ~blocked /\ (auth \/ ~google_token)
            served == e.ok /\ ~fail /\ ~blocked /\ ~denied
            done == served /\ ~dbfail
            rest == [f EXCEPT ![phase] = Tail(@),
                              !.io = IF IsSome(e.call) /\ ~blocked
                                     THEN Append(@, [e.call[1] EXCEPT !.ok = served])
                                     ELSE @]
            after == IF ~done THEN ChangeFailed(rest)
                     ELSE IF e.counter = "none" THEN rest
                     ELSE [rest EXCEPT !.result[e.counter] = @ + 1]
        IN  /\ fail => IsSome(e.call) /\ e.ok /\ ~blocked /\ faults < MaxFaults
            /\ auth => fail /\ google_call /\ google_token
            /\ dbfail => IsSome(e.call) /\ served /\ faults < MaxFaults
            /\ faults' = IF fail \/ dbfail THEN faults + 1 ELSE faults
            /\ google_token' = IF auth THEN FALSE ELSE google_token
            /\ google_service' = IF denied THEN FALSE ELSE google_service
            /\ google_cal' = IF served THEN [google_cal EXCEPT ![m] = e.google] ELSE google_cal
            /\ caldav_cal' = IF served THEN [caldav_cal EXCEPT ![m] = e.caldav] ELSE caldav_cal
            /\ event_mappings' = IF done THEN e.rows ELSE event_mappings
            /\ clock' = IF served /\ e.google # google_cal[m] THEN clock + 1 ELSE clock
            /\ next_id' = IF served /\ IsSome(e.call) THEN next_id + 2 ELSE next_id
            /\ run' = [run EXCEPT ![t] = after]
            /\ Goto(t, IF after.to_google = <<>> /\ after.to_caldav = <<>>
                          /\ after.conflicts = <<>>
                       THEN "finalize" ELSE "apply")
    /\ UNCHANGED <<mappings, caldav_accounts, sync_logs, webhook_retries,
                   externals, api_calls, schedVars, loop, ready, next_task, task_limit>>

\* The status never decided: the row keeps the status it was inserted with
FinalStatusRunning(result, raised) == "running"

\* "Determine final status" in sync_mapping; the except branch leaves failure
FinalStatus(result, raised) ==
    IF raised THEN "failure"
    ELSE IF result.error_count = 0 THEN "success"
    ELSE IF result.inserted_count + result.updated_count + result.deleted_count > 0
    THEN "partial_failure"
    ELSE "failure"

\* A task that ends without releasing its mapping
UnlockKeep(t) ==
    /\ active_jobs' = active_jobs
    /\ EndTask(t)
    /\ run' = Remove(run, t)
    /\ loop' = 0

\* finally of _sync_mapping_with_lock, and the end of the asyncio task
Unlock(t) ==
    /\ active_jobs' = active_jobs \ {tasks[t].mapping_id}
    /\ EndTask(t)
    /\ run' = Remove(run, t)
    /\ loop' = 0

\* The status decision, the finally block of sync_mapping (the SyncLog row
\* and the mapping row are re-fetched and written) and the entry of
\* send_sync_result_webhook: without a webhook_url it returns at once and
\* the task ends, otherwise the task suspends in httpx's POST.
RunFinalize(t) ==
    /\ Holds(t, "finalize")
    /\ LET f == run[t]
           m == f.mapping.id
           status == FinalStatus(f.result, f.raised)
           r == f.result
       IN  /\ sync_logs' = IF f.sync_log_id \in DOMAIN sync_logs
                           THEN [sync_logs EXCEPT ![f.sync_log_id] =
                                    [@ EXCEPT !.status = status,
                                              !.inserted_count = r.inserted_count,
                                              !.updated_count = r.updated_count,
                                              !.deleted_count = r.deleted_count,
                                              !.error_count = r.error_count,
                                              !.errors = r.errors]]
                           ELSE sync_logs
           /\ mappings' = IF m \in DOMAIN mappings
                          THEN [mappings EXCEPT ![m].last_sync_status = status]
                          ELSE mappings
           /\ IF f.mapping.webhook_url
              THEN /\ run' = [run EXCEPT ![t].result.status = status]
                   /\ Goto(t, "post")
                   /\ loop' = 0
                   /\ UNCHANGED <<active_jobs, instances>>
              ELSE Unlock(t)
    /\ UNCHANGED <<caldav_accounts, google_token, event_mappings, webhook_retries,
                   google_service, worldVars, jobs, ready, idVars>>

\* WebhookClient.send_webhook: the POST completes (2xx, or anything else:
\* another status, a timeout, a request error) and the loop schedules the
\* waiting task
send_webhook(t, ok) ==
    /\ loop = 0
    /\ t \in DOMAIN tasks /\ tasks[t].pc = "post"
    /\ run' = [run EXCEPT ![t].webhook_ok = ok]
    /\ Goto(t, "posted")
    /\ ready' = Append(ready, t)
    /\ UNCHANGED <<dbVars, google_service, caldav_cal, google_cal, clock, externals,
                   api_calls, schedVars, loop, idVars>>

\* send_webhook with its failures counted among the injected failures
PostResponse(t, ok) ==
    /\ ~ok => faults < MaxFaults
    /\ faults' = IF ok THEN faults ELSE faults + 1
    /\ send_webhook(t, ok)

\* send_webhook whose failures are free
PostReply(t, ok) == send_webhook(t, ok) /\ UNCHANGED faults

\* WebhookPayload(mapping, sync_log).to_dict()
WebhookPayload(mapping, sync_log) ==
    [mapping_id |-> mapping.id, direction |-> sync_log.direction, status |-> sync_log.status,
     inserted |-> sync_log.inserted_count, updated |-> sync_log.updated_count,
     deleted |-> sync_log.deleted_count]

\* A schedule that always waits the first delay
retry_delay_first(attempt) == retry_delays[1]

\* retry_delays[min(attempt, len(retry_delays) - 1)]; Python counts from 0
retry_delay(attempt) ==
    retry_delays[(IF attempt < Len(retry_delays) - 1 THEN attempt
                  ELSE Len(retry_delays) - 1) + 1]

\* WebhookRetry row of queue_webhook_retry(mapping, sync_log, payload,
\* attempt) at time `now`.  failures and failed_at are no columns: they
\* record how many deliveries of the payload have failed and when the last
\* one did.
WebhookRetryRow(sync_log_id, payload, attempt, now) ==
    [sync_log_id |-> sync_log_id, payload |-> payload, attempt_count |-> attempt,
     max_attempts |-> max_retries, next_retry_at |-> now + retry_delay(attempt),
     created_at |-> now, failures |-> 1, failed_at |-> now]

\* WebhookClient.queue_webhook_retry: the rows afterwards.  sync_log_id is
\* NOT NULL: for a sync_log that was never inserted (id None, 0 here) the
\* INSERT raises and sync_mapping swallows the exception.
queue_webhook_retry(rows, sync_log_id, payload, attempt, now) ==
    IF attempt >= max_retries \/ sync_log_id = 0 THEN rows
    ELSE rows \cup {WebhookRetryRow(sync_log_id, payload, attempt, now)}

\* The rest of send_sync_result_webhook after the POST: webhook_sent and
\* webhook_status are set on the sync_log object of the frame, a failed
\* delivery is queued for retry; then sync_mapping and the task return.
PostResume(t) ==
    /\ loop = 0
    /\ ready # <<>> /\ Head(ready) = t
    /\ tasks[t].pc = "posted" /\ tasks[t].kind # "retries"
    /\ ready' = Tail(ready)
    /\ webhook_retries' = IF run[t].webhook_ok THEN webhook_retries
                          ELSE queue_webhook_retry(webhook_retries, run[t].sync_log_id,
                                                   WebhookPayload(run[t].mapping,
                                                                  run[t].sync_log),
                                                   0, clock)
    /\ active_jobs' = active_jobs \ {tasks[t].mapping_id}
    /\ EndTask(t)
    /\ run' = Remove(run, t)
    /\ UNCHANGED <<mappings, caldav_accounts, google_token, event_mappings, sync_logs,
                   google_service, worldVars, jobs, loop, idVars>>

\* ------------------------------------------------------- retry processor
\* The task of WebhookRetryProcessor._process_loop (task 0) and the locals
\* of process_webhook_retries: the rows still to attempt and the changes
\* the open session holds until db.commit()
RetryTask == [kind |-> "retries", mapping_id |-> 0, pc |-> "idle", fired_in_flight |-> FALSE]

RetryFrame == [mapping |-> [id |-> 0], pending_retries |-> <<>>, session |-> {},
               webhook_ok |-> FALSE, db |-> FALSE]

\* The filter of process_webhook_retries
Due(rows, now) ==
    {r \in rows : r.next_retry_at <= now /\ r.attempt_count < r.max_attempts}

\* A failure branch that reschedules with the delay of the attempt before
RetryFailedSameDelay(retry, now) ==
    LET attempt_count == retry.attempt_count + 1
    IN  [retry EXCEPT !.attempt_count = attempt_count,
                      !.next_retry_at = IF attempt_count < retry.max_attempts
                                        THEN now + retry_delay(retry.attempt_count)
                                        ELSE @,
                      !.failures = @ + 1, !.failed_at = now]

\* process_webhook_retries, the branch `else` of `if success`
RetryFailed(retry, now) ==
    LET attempt_count == retry.attempt_count + 1
    IN  [retry EXCEPT !.attempt_count = attempt_count,
                      !.next_retry_at = IF attempt_count < retry.max_attempts
                                        THEN now + retry_delay(attempt_count)
                                        ELSE @,
                      !.failures = @ + 1, !.failed_at = now]

\* db.commit() of the session of process_webhook_retries
Commit(rows, session) ==
    (rows \ {c.old : c \in session}) \cup {c.new[1] : c \in {x \in session : IsSome(x.new)}}

\* timedelta(days=days_old), in seconds
MaxAge == days_old * 24 * 3600

\* A cleanup that removes every failed row, whatever its age
cleanup_every_failed(rows, now) ==
    {r \in rows : ~(r.attempt_count >= r.max_attempts)}

\* WebhookClient.cleanup_old_retries: the rows afterwards
cleanup_old_retries(rows, now) ==
    {r \in rows : ~(r.created_at < now - MaxAge /\ r.attempt_count >= r.max_attempts)}

\* datetime.utcnow().minute
Minute(now) == (now \div 60) % 60

\* _process_loop after process_webhook_retries has returned: the cleanup of
\* the passes that fall in minute 0 of an hour
EndOfPass(rows, now) ==
    IF Minute(now) = 0 THEN cleanup_old_retries(rows, now) ELSE rows

\* The instants at which the behaviours observed begin: the start of the
\* application, and a week of operation later
GcStart == 1 + retry_interval * 10110

Epochs == {1, GcStart}

\* asyncio.sleep(60) is over and process_webhook_retries runs up to its
\* first POST: the due rows are selected (in an order of the database's
\* choice); with none the pass ends at once
RetryWake ==
    /\ loop = 0
    /\ 0 \in DOMAIN tasks /\ tasks[0].pc = "idle"
    /\ \E e \in Epochs : clock >= e /\ clock < e + retry_interval * MaxPasses
    /\ clock' = clock + retry_interval
    /\ \E pending_retries \in Orderings(Due(webhook_retries, clock')) :
          /\ run' = [run EXCEPT ![0].pending_retries = pending_retries, ![0].session = {},
                                  ![0].db = pending_retries # <<>>]
          /\ tasks' = IF pending_retries = <<>> THEN tasks
                      ELSE [tasks EXCEPT ![0].pc = "post"]
          /\ webhook_retries' = IF pending_retries = <<>>
                                THEN EndOfPass(webhook_retries, clock')
                                ELSE webhook_retries
    /\ UNCHANGED <<mappings, caldav_accounts, google_token, event_mappings, sync_logs,
                   google_service, caldav_cal, google_cal, externals, api_calls,
                   faults, schedVars, loop, ready, idVars>>

\* process_webhook_retries after a POST: the row is deleted or updated in
\* the session, then the next row is posted or, after the last one, the
\* session is committed and the loop sleeps again
RetryResume ==
    /\ loop = 0
    /\ ready # <<>> /\ Head(ready) = 0
    /\ tasks[0].pc = "posted"
    /\ ready' = Tail(ready)
    /\ LET f == run[0]
           retry == Head(f.pending_retries)
           session == f.session
                        \cup {[old |-> retry,
                               new |-> IF f.webhook_ok THEN None
                                       ELSE Some(RetryFailed(retry, clock))]}
           rest == Tail(f.pending_retries)
       IN  IF rest # <<>>
           THEN /\ run' = [run EXCEPT ![0].pending_retries = rest, ![0].session = session]
                /\ Goto(0, "post")
                /\ UNCHANGED webhook_retries
           ELSE /\ run' = [run EXCEPT ![0].pending_retries = <<>>, ![0].session = {},
                                       ![0].db = FALSE]
                /\ Goto(0, "idle")
                /\ webhook_retries' = EndOfPass(Commit(webhook_retries, session), clock)
    /\ UNCHANGED <<mappings, caldav_accounts, google_token, event_mappings, sync_logs,
                   google_service, worldVars, schedVars, loop, idVars>>

\* -------------------------------------------------------------------- API
\* POST /mappings/{id}/disable
DisableMapping(m) ==
    /\ loop = 0
    /\ api_calls < MaxApiCalls
    /\ api_calls' = api_calls + 1
    /\ m \in DOMAIN mappings /\ mappings[m].enabled
    /\ mappings' = [mappings EXCEPT ![m].enabled = FALSE]
    /\ jobs' = jobs \ {m}
    /\ UNCHANGED <<caldav_accounts, google_token, event_mappings, sync_logs, webhook_retries,
                   google_service, caldav_cal, google_cal, clock, externals, faults, instances, active_jobs, loopVars, idVars>>

\* POST /mappings/{id}/enable
EnableMapping(m) ==
    /\ loop = 0
    /\ api_calls < MaxApiCalls
    /\ api_calls' = api_calls + 1
    /\ m \in DOMAIN mappings /\ ~mappings[m].enabled
    /\ mappings[m].caldav_account_id \in DOMAIN caldav_accounts
    /\ caldav_accounts[mappings[m].caldav_account_id].enabled
    /\ google_token
    /\ mappings' = [mappings EXCEPT ![m].enabled = TRUE]
    /\ jobs' = jobs \cup {m}
    /\ UNCHANGED <<caldav_accounts, google_token, event_mappings, sync_logs, webhook_retries,
                   google_service, caldav_cal, google_cal, clock, externals, faults, instances, active_jobs, loopVars, idVars>>

\* PUT /caldav/accounts/{id} with `enabled` in the body
UpdateCalDAVAccount(a, enabled) ==
    /\ loop = 0
    /\ api_calls < MaxApiCalls
    /\ api_calls' = api_calls + 1
    /\ a \in DOMAIN caldav_accounts /\ caldav_accounts[a].enabled # enabled
    /\ caldav_accounts' = [caldav_accounts EXCEPT ![a].enabled = enabled]
    /\ UNCHANGED <<mappings, google_token, event_mappings, sync_logs, webhook_retries,
                   google_service, caldav_cal, google_cal, clock, externals, faults, schedVars, loopVars, idVars>>

\* The stored Google token is revoked (or expires without a refresh token),
\* or the OAuth flow stores a new one
SetGoogleToken(valid) ==
    /\ loop = 0
    /\ api_calls < MaxApiCalls
    /\ api_calls' = api_calls + 1
    /\ google_token # valid
    /\ google_token' = valid
    /\ UNCHANGED <<mappings, caldav_accounts, event_mappings, sync_logs, webhook_retries,
                   google_service, caldav_cal, google_cal, clock, externals, faults, schedVars, loopVars, idVars>>

\* ------------------------------------------------------- the two servers
\* A user (or another client) edits a calendar behind the service's back.
\* The servers stamp the modification time.
ExternalCalDAVPut(m, uid, summary, rrule) ==
    /\ externals < MaxExternal
    /\ m \in DOMAIN caldav_cal
    /\ caldav_cal' = [caldav_cal EXCEPT ![m] =
                         {c \in @ : c.uid # uid}
                           \cup {CalDAVEvent(uid, summary, rrule, clock + 1)}]
    /\ clock' = clock + 1
    /\ externals' = externals + 1
    /\ UNCHANGED <<dbVars, google_service, google_cal, api_calls, faults, schedVars, loopVars,
                   idVars>>

ExternalCalDAVDelete(m, uid) ==
    /\ externals < MaxExternal
    /\ m \in DOMAIN caldav_cal
    /\ \E c \in caldav_cal[m] : c.uid = uid
    /\ caldav_cal' = [caldav_cal EXCEPT ![m] = {c \in @ : c.uid # uid}]
    /\ externals' = externals + 1
    /\ UNCHANGED <<dbVars, google_service, google_cal, clock, api_calls, faults, schedVars,
                   loopVars, idVars>>

\* An edit of the Google event with this iCalUID
ExternalGoogleEdit(m, uid, summary) ==
    /\ externals < MaxExternal
    /\ m \in DOMAIN google_cal
    /\ \E g \in google_cal[m] :
        /\ g.uid = uid
        /\ google_cal' = [google_cal EXCEPT ![m] =
                             (@ \ {g}) \cup {[g EXCEPT !.summary = summary,
                                                       !.updated = clock + 1]}]
    /\ clock' = clock + 1
    /\ externals' = externals + 1
    /\ UNCHANGED <<dbVars, google_service, caldav_cal, api_calls, faults, schedVars, loopVars,
                   idVars>>

\* An event with this iCalUID is created on the Google side (an import, or
\* an invitation accepted there): Google issues the id
ExternalGoogleInsert(m, uid, summary, recurrence) ==
    /\ externals < MaxExternal
    /\ m \in DOMAIN google_cal
    /\ \A g \in google_cal[m] : g.uid # uid
    /\ google_cal' = [google_cal EXCEPT ![m] =
                         @ \cup {GoogleEvent(next_id, uid, summary, recurrence, clock + 1)}]
    /\ next_id' = next_id + 1
    /\ clock' = clock + 1
    /\ externals' = externals + 1
    /\ UNCHANGED <<dbVars, google_service, caldav_cal, api_calls, faults, schedVars, loopVars,
                   next_task, task_limit>>

ExternalGoogleDelete(m, uid) ==
    /\ externals < MaxExternal
    /\ m \in DOMAIN google_cal
    /\ \E g \in google_cal[m] : g.uid = uid
    /\ google_cal' = [google_cal EXCEPT ![m] = {g \in @ : g.uid # uid}]
    /\ externals' = externals + 1
    /\ UNCHANGED <<dbVars, google_service, caldav_cal, clock, api_calls, faults, schedVars,
                   loopVars, idVars>>

\* ---------------------------------------------------------- specification
MappingRow(direction, webhook_url) ==
    [enabled |-> TRUE, sync_direction |-> direction, webhook_url |-> webhook_url,
     caldav_account_id |-> 1, last_sync_status |-> "none"]

\* The state after start-up with the mappings `ms` configured and enabled:
\* SyncScheduler.start has scheduled a job per enabled mapping and nothing
\* has run yet (Booted); each CalDAV calendar holds one event not yet synced
\* (Started).
Booted(ms, limit) ==
    /\ caldav_accounts = (1 :> [enabled |-> TRUE])
    /\ google_token = TRUE
    /\ google_service = FALSE
    /\ event_mappings = {}
    /\ sync_logs = <<>>
    /\ webhook_retries = {}
    /\ externals = 0
    /\ api_calls = 0
    /\ faults = 0
    /\ jobs = ms
    /\ instances = [m \in ms |-> 0]
    /\ active_jobs = {}
    /\ tasks = <<>>
    /\ run = <<>>
    /\ loop = 0
    /\ ready = <<>>
    /\ next_task = 1
    /\ task_limit = limit

Started(ms, limit) ==
    /\ Booted(ms, limit)
    /\ caldav_cal = [m \in ms |-> {CalDAVEvent(1, "Meeting", <<>>, 1)}]
    /\ google_cal = [m \in ms |-> {}]
    /\ clock = 1
    /\ next_id = 1

\* Mapping 1 posts a webhook and its CalDAV calendar holds one event not yet
\* synced; the calendars of the other mappings are empty.
Init ==
    /\ mappings = [m \in MappingIds |-> MappingRow("bidirectional", m = 1)]
    /\ Booted(MappingIds, MaxTasks)
    /\ caldav_cal = [m \in MappingIds |->
                        IF m = 1 THEN {CalDAVEvent(1, "Meeting", <<>>, 1)} ELSE {}]
    /\ google_cal = [m \in MappingIds |-> {}]
    /\ clock = 1
    /\ next_id = 1

Next ==
    \/ \E m \in MappingIds : TriggerManual(m)
    \/ \E m \in MappingIds : Tick(m)
    \/ \E t \in DOMAIN tasks : TaskStart(t)
    \/ \E t \in DOMAIN tasks : RunOpenSyncLog(t)
    \/ \E t \in DOMAIN tasks : RunFetch(t)
    \/ \E t \in DOMAIN tasks : RunDiff(t)
    \/ \E t \in DOMAIN tasks : RunApply(t)
    \/ \E t \in DOMAIN tasks : RunFinalize(t)
    \/ \E t \in DOMAIN tasks, ok \in BOOLEAN : PostResponse(t, ok)
    \/ \E t \in DOMAIN tasks : PostResume(t)
    \/ \E m \in MappingIds : DisableMapping(m)
    \/ \E m \in MappingIds : EnableMapping(m)
    \/ \E enabled \in BOOLEAN : UpdateCalDAVAccount(1, enabled)
    \/ \E valid \in BOOLEAN : SetGoogleToken(valid)

Spec == Init /\ [][Next]_vars

\* A coroutine that holds the event loop runs on until it suspends or
\* returns: the synchronous part of a sync run always proceeds.
RunStep ==
    \E t \in DOMAIN tasks :
        \/ RunOpenSyncLog(t)
        \/ RunFetch(t)
        \/ RunDiff(t)
        \/ RunApply(t)
        \/ RunFinalize(t)

FairSpec == Spec /\ WF_vars(RunStep)

\* httpx answers or times out (timeout_seconds): a POST under way ends
Delivery == \E t \in DOMAIN tasks, ok \in BOOLEAN : PostResponse(t, ok)

\* The event loop runs the task at the head of its ready queue: a task
\* just created starts, a task whose POST has ended resumes
Resume == \E t \in DOMAIN tasks : TaskStart(t) \/ PostResume(t)

\* Runs proceed also through their webhook: the synchronous part, the
\* POST and the resumption after it
JobSpec == Spec /\ WF_vars(RunStep) /\ WF_vars(Delivery) /\ WF_vars(Resume)

\* The engine alone: one mapping without a webhook, of any direction, synced
\* on demand while the two calendars are edited behind the service's back.
EngineInit ==
    /\ mappings \in [{1} -> {MappingRow(d, FALSE) : d \in Directions}]
    /\ Started({1}, MaxTasks)

EngineNext ==
    \/ TriggerManual(1)
    \/ \E t \in DOMAIN tasks : TaskStart(t)
    \/ \E t \in DOMAIN tasks : RunOpenSyncLog(t)
    \/ \E t \in DOMAIN tasks : RunFetch(t)
    \/ \E t \in DOMAIN tasks : RunDiff(t)
    \/ \E t \in DOMAIN tasks : RunApply(t)
    \/ \E t \in DOMAIN tasks : RunFinalize(t)
    \/ \E uid \in UIDs, summary \in Summaries, rrule \in Rules :
          ExternalCalDAVPut(1, uid, summary, rrule)
    \/ \E uid \in UIDs : ExternalCalDAVDelete(1, uid)
    \/ \E uid \in UIDs, summary \in Summaries : ExternalGoogleEdit(1, uid, summary)
    \/ \E uid \in UIDs, summary \in Summaries, recurrence \in Recurrences :
          ExternalGoogleInsert(1, uid, summary, recurrence)
    \/ \E uid \in UIDs : ExternalGoogleDelete(1, uid)

EngineSpec == EngineInit /\ [][EngineNext]_vars

\* The engine run again and again on calendars that are left alone once the
\* second run has been requested: every later run follows a run between
\* which and itself nothing was edited on either server.
Quiet == next_task > 2

RepeatNext ==
    \/ TriggerManual(1)
    \/ \E t \in DOMAIN tasks : TaskStart(t)
    \/ \E t \in DOMAIN tasks : RunOpenSyncLog(t)
    \/ \E t \in DOMAIN tasks : RunFetch(t)
    \/ \E t \in DOMAIN tasks : RunDiff(t)
    \/ \E t \in DOMAIN tasks : RunApply(t)
    \/ \E t \in DOMAIN tasks : RunFinalize(t)
    \/ ~Quiet /\ \E uid \in UIDs, summary \in Summaries, rrule \in Rules :
                    ExternalCalDAVPut(1, uid, summary, rrule)
    \/ ~Quiet /\ \E uid \in UIDs : ExternalCalDAVDelete(1, uid)
    \/ ~Quiet /\ \E uid \in UIDs, summary \in Summaries : ExternalGoogleEdit(1, uid, summary)
    \/ ~Quiet /\ \E uid \in UIDs, summary \in Summaries, recurrence \in Recurrences :
                    ExternalGoogleInsert(1, uid, summary, recurrence)
    \/ ~Quiet /\ \E uid \in UIDs : ExternalGoogleDelete(1, uid)

RepeatSpec == EngineInit /\ [][RepeatNext]_vars

\* One mapping more than max_concurrent_mappings, each with a webhook, each
\* synced on demand in the order of the ids; the webhook receiver is slow to
\* answer.
CapInit ==
    /\ mappings = [m \in CapMappingIds |-> MappingRow("bidirectional", TRUE)]
    /\ Started(CapMappingIds, max_concurrent_mappings + 1)

CapNext ==
    \/ \E m \in CapMappingIds : m = next_task /\ TriggerManual(m)
    \/ \E t \in DOMAIN tasks : TaskStart(t)
    \/ \E t \in DOMAIN tasks : RunOpenSyncLog(t)
    \/ \E t \in DOMAIN tasks : RunFetch(t)
    \/ \E t \in DOMAIN tasks : RunDiff(t)
    \/ \E t \in DOMAIN tasks : RunApply(t)
    \/ \E t \in DOMAIN tasks : RunFinalize(t)

CapSpec == CapInit /\ [][CapNext]_vars

\* The first run of a bidirectional mapping over two calendars that already
\* hold the same event (same UID), each copy with any summary and any
\* modification time, or none (0): the servers need not report one.
Stamps == 0..MaxStamp

ResolveInit ==
    /\ mappings = (1 :> MappingRow("bidirectional", FALSE))
    /\ Booted({1}, MaxTasks)
    /\ \E s1 \in Summaries, s2 \in Summaries, tc \in Stamps, tg \in Stamps :
          /\ caldav_cal = (1 :> {CalDAVEvent(1, s1, <<>>, tc)})
          /\ google_cal = (1 :> {GoogleEvent(1, 1, s2, <<>>, tg)})
    /\ clock = MaxStamp
    /\ next_id = 2

ResolveNext ==
    \/ TriggerManual(1)
    \/ \E t \in DOMAIN tasks : TaskStart(t)
    \/ \E t \in DOMAIN tasks : RunOpenSyncLog(t)
    \/ \E t \in DOMAIN tasks : RunFetch(t)
    \/ \E t \in DOMAIN tasks : RunDiff(t)
    \/ \E t \in DOMAIN tasks : RunApply(t)
    \/ \E t \in DOMAIN tasks : RunFinalize(t)

ResolveSpec == ResolveInit /\ [][ResolveNext]_vars

\* The first runs of a mapping of any direction whose CalDAV calendar holds
\* several events, none of them synced yet; the servers list the events in
\* an order of their own.
BatchInit ==
    /\ mappings \in [{1} -> {MappingRow(d, FALSE) : d \in Directions}]
    /\ Booted({1}, MaxTasks)
    /\ caldav_cal = (1 :> {CalDAVEvent(uid, "Meeting", <<>>, 1) : uid \in 1..MaxBatch})
    /\ google_cal = (1 :> {})
    /\ clock = 1
    /\ next_id = 1

BatchNext ==
    \/ TriggerManual(1)
    \/ \E t \in DOMAIN tasks : TaskStart(t)
    \/ \E t \in DOMAIN tasks : RunOpenSyncLog(t)
    \/ \E t \in DOMAIN tasks : RunFetch(t)
    \/ \E t \in DOMAIN tasks : RunDiff(t)
    \/ \E t \in DOMAIN tasks : RunApply(t)
    \/ \E t \in DOMAIN tasks : RunFinalize(t)

BatchSpec == BatchInit /\ [][BatchNext]_vars

\* The webhook path: one mapping with a webhook_url and empty calendars (a
\* run has nothing to apply), its runs, and the retry processor started by
\* the application; the receiver may refuse any number of POSTs.
RetryInit ==
    /\ mappings = (1 :> MappingRow("bidirectional", TRUE))
    /\ caldav_accounts = (1 :> [enabled |-> TRUE])
    /\ google_token = TRUE
    /\ google_service = FALSE
    /\ event_mappings = {}
    /\ sync_logs = <<>>
    /\ webhook_retries = {}
    /\ externals = 0
    /\ api_calls = 0
    /\ faults = 0
    /\ jobs = {1}
    /\ instances = (1 :> 0)
    /\ active_jobs = {}
    /\ tasks = (0 :> RetryTask)
    /\ run = (0 :> RetryFrame)
    /\ loop = 0
    /\ ready = <<>>
    /\ next_task = 1
    /\ task_limit = 2
    /\ caldav_cal = (1 :> {})
    /\ google_cal = (1 :> {})
    /\ clock = 1
    /\ next_id = 1

RetryNext ==
    \/ TriggerManual(1)
    \/ \E t \in DOMAIN tasks : TaskStart(t)
    \/ \E t \in DOMAIN tasks : RunOpenSyncLog(t)
    \/ \E t \in DOMAIN tasks : RunFetch(t)
    \/ \E t \in DOMAIN tasks : RunDiff(t)
    \/ \E t \in DOMAIN tasks : RunFinalize(t)
    \/ \E t \in DOMAIN tasks, ok \in BOOLEAN : PostReply(t, ok)
    \/ \E t \in DOMAIN tasks : PostResume(t)
    \/ RetryWake
    \/ RetryResume

RetrySpec == RetryInit /\ [][RetryNext]_vars

\* The webhook path a week later: the webhook of run 1 failed max_attempts
\* retries about a week ago (its first POST in minute 40 or in minute 10
\* of the following hour), the row is still in the table, and the
\* processor has been asleep since its last pass.
GcInit ==
    /\ mappings = (1 :> [MappingRow("bidirectional", TRUE) EXCEPT
                           !.last_sync_status = "success"])
    /\ caldav_accounts = (1 :> [enabled |-> TRUE])
    /\ google_token = TRUE
    /\ google_service = TRUE
    /\ event_mappings = {}
    /\ sync_logs = (1 :> SyncLogRow(1, "bidirectional", "success"))
    /\ \E created_at \in {1 + retry_interval * 40, 1 + retry_interval * 70} :
          webhook_retries =
              {[WebhookRetryRow(1, WebhookPayload([id |-> 1],
                                                  SyncLogRow(1, "bidirectional", "running")),
                                0, created_at)
                  EXCEPT !.attempt_count = max_retries,
                         !.next_retry_at = created_at + 2160,
                         !.failures = max_retries + 1,
                         !.failed_at = created_at + 2160]}
    /\ externals = 0
    /\ api_calls = 0
    /\ faults = 0
    /\ jobs = {1}
    /\ instances = (1 :> 0)
    /\ active_jobs = {}
    /\ tasks = (0 :> RetryTask)
    /\ run = (0 :> RetryFrame)
    /\ loop = 0
    /\ ready = <<>>
    /\ next_task = 2
    /\ task_limit = 2
    /\ caldav_cal = (1 :> {})
    /\ google_cal = (1 :> {})
    /\ clock = GcStart
    /\ next_id = 1

GcSpec == GcInit /\ [][RetryNext]_vars
\* ------------------------------------------------------------- properties
RunsOf(m) == {t \in DOMAIN run : run[t].mapping.id = m}

PendingManual(m) ==
    {t \in DOMAIN tasks : tasks[t].mapping_id = m /\ tasks[t].kind = "manual"
                          /\ tasks[t].pc = "created"}

RunningLogs(m) ==
    {id \in DOMAIN sync_logs : sync_logs[id].mapping_id = m
                               /\ sync_logs[id].status = "running"}

\* C1: for every mapping id at most one sync run is in flight at any time,
\* whatever the interleaving of periodic ticks and manual triggers.
C1_OneRunPerMapping == \A m \in DOMAIN mappings : Cardinality(RunsOf(m)) <= 1

\* A run of a mapping is in flight (suspended in its webhook POST) while
\* another task of the same mapping, from a tick or a manual trigger, is
\* about to start
C1_Witness ==
    \E t \in DOMAIN run : \E u \in DOMAIN tasks :
        /\ tasks[t].pc = "post"
        /\ u # t /\ tasks[u].mapping_id = run[t].mapping.id /\ tasks[u].pc = "created"
        /\ ready # <<>> /\ Head(ready) = u

\* C2: of the trigger_manual_sync calls made for one enabled mapping before
\* any of them has started a run, exactly one returns true: never two
\* accepted manual triggers of one mapping are waiting to start.
C2_OneAcceptedTrigger == \A m \in DOMAIN mappings : Cardinality(PendingManual(m)) <= 1

LogRunning(id) == id \in DOMAIN sync_logs /\ sync_logs[id].status = "running"

LogTerminal(id) == id \in DOMAIN sync_logs /\ sync_logs[id].status \in TerminalStatuses

C5_TickInFlightDropped ==
    \A t \in DOMAIN tasks : tasks[t].fired_in_flight => tasks[t].pc = "created"

\* C6: the number of runs in flight across all mappings never exceeds
\* max_concurrent_mappings.
C6_ConcurrencyCap == Cardinality(DOMAIN run) <= max_concurrent_mappings

AccountEnabled(frame) ==
    /\ frame.mapping.caldav_account_id \in DOMAIN caldav_accounts
    /\ caldav_accounts[frame.mapping.caldav_account_id].enabled

\* C7: no run fetches events or calls an adapter write for a mapping whose
\* CalDAV account is disabled or while there is no valid Google credential.
C7_NoIOWithoutAccounts ==
    [][\A t \in DOMAIN run :
          (t \in DOMAIN run' /\ Len(run'[t].io) > Len(run[t].io))
             => (AccountEnabled(run[t]) /\ google_token)]_vars

\* A run of a bidirectional mapping that got through fetch, diff and apply
\* without an error and is about to write its result
CleanBidirectionalRun(t) ==
    /\ tasks[t].pc = "finalize"
    /\ run[t].mapping.sync_direction = "bidirectional"
    /\ ~run[t].raised
    /\ run[t].result.error_count = 0

Wrote(frame, side, uid) ==
    \E i \in 1..Len(frame.io) :
        /\ frame.io[i].op # "get_events"
        /\ frame.io[i].side = side
        /\ frame.io[i].uid = uid

Fetched(events, uid) == \E i \in 1..Len(events) : events[i].uid = uid

RowOf(frame, uid) == DictGet(frame.existing_mappings, "caldav_uid", uid)

\* The event was fetched from both sides, has an EventMapping row, and
\* only its Google copy was modified after the time the row records
OnlyGoogleChanged(frame, uid) ==
    /\ Fetched(frame.caldav_events, uid) /\ Fetched(frame.google_events, uid)
    /\ IsSome(RowOf(frame, uid))
    /\ LET c == DictGet(frame.caldav_events, "uid", uid)[1]
           g == DictGet(frame.google_events, "uid", uid)[1]
           row == RowOf(frame, uid)[1]
       IN  /\ g.updated > row.last_google_updated
           /\ c.last_modified <= row.last_caldav_modified

OnlyCalDAVChanged(frame, uid) ==
    /\ Fetched(frame.caldav_events, uid) /\ Fetched(frame.google_events, uid)
    /\ IsSome(RowOf(frame, uid))
    /\ LET c == DictGet(frame.caldav_events, "uid", uid)[1]
           g == DictGet(frame.google_events, "uid", uid)[1]
           row == RowOf(frame, uid)[1]
       IN  /\ c.last_modified > row.last_caldav_modified
           /\ g.updated <= row.last_google_updated

\* C8: in a bidirectional run, for an event that is on both sides and has an
\* EventMapping: if only the Google copy changed, the CalDAV copy is updated
\* from Google and nothing is written to Google; if only the CalDAV copy
\* changed, the Google copy is updated and nothing is written to CalDAV.
C8_OneSidedChange ==
    \A t \in DOMAIN run : \A uid \in UIDs :
        CleanBidirectionalRun(t) =>
            /\ OnlyGoogleChanged(run[t], uid)
                  => Wrote(run[t], "caldav", uid) /\ ~Wrote(run[t], "google", uid)
            /\ OnlyCalDAVChanged(run[t], uid)
                  => Wrote(run[t], "google", uid) /\ ~Wrote(run[t], "caldav", uid)

\* C9: in a bidirectional run with an EventMapping for A, A on CalDAV and no
\* event on Google, A is deleted from CalDAV, its EventMapping is removed,
\* nothing is created on Google and the counts are 0/0/1/0.
C9_DeletedOnGoogle ==
    \A t \in DOMAIN run : \A uid \in UIDs :
        (/\ CleanBidirectionalRun(t)
         /\ Len(run[t].caldav_events) = 1 /\ Fetched(run[t].caldav_events, uid)
         /\ run[t].google_events = <<>>
         /\ IsSome(RowOf(run[t], uid)))
        => /\ Wrote(run[t], "caldav", uid) /\ ~Wrote(run[t], "google", uid)
           /\ \A row \in MappingRows(run[t].mapping.id) : row.caldav_uid # uid
           /\ run[t].result.inserted_count = 0 /\ run[t].result.updated_count = 0
           /\ run[t].result.deleted_count = 1 /\ run[t].result.error_count = 0

\* C10: an EventMapping whose UID is in neither fetch result is gone after
\* the run, and the run attempts no adapter mutation for it.
C10_OrphanRemoved ==
    \A t \in DOMAIN run : \A uid \in UIDs :
        (/\ tasks[t].pc = "finalize" /\ ~run[t].raised
         /\ IsSome(RowOf(run[t], uid))
         /\ ~Fetched(run[t].caldav_events, uid) /\ ~Fetched(run[t].google_events, uid))
        => /\ \A row \in MappingRows(run[t].mapping.id) : row.caldav_uid # uid
           /\ ~Wrote(run[t], "caldav", uid) /\ ~Wrote(run[t], "google", uid)

\* C11: a run that follows a successful run of the same mapping, with no
\* edit on either server between the two, ends with all its counters at
\* zero and the status success, and leaves every event_hash as it found it.
Repeated(t) ==
    /\ t > 2
    /\ Holds(t, "finalize")
    /\ ~run[t].raised
    /\ (t - 1) \in DOMAIN sync_logs
    /\ sync_logs[t - 1].status = "success"

HashesKept(frame) ==
    \A r \in MappingRows(frame.mapping.id) :
        \E i \in 1..Len(frame.existing_mappings) :
            /\ frame.existing_mappings[i].id = r.id
            /\ frame.existing_mappings[i].event_hash = r.event_hash

C11_SecondRunNoop ==
    \A t \in DOMAIN run :
        Repeated(t) =>
            /\ run[t].result.inserted_count = 0
            /\ run[t].result.updated_count = 0
            /\ run[t].result.deleted_count = 0
            /\ run[t].result.error_count = 0
            /\ FinalStatus(run[t].result, run[t].raised) = "success"
            /\ HashesKept(run[t])

\* C12: in a bidirectional run, an event fetched from both sides under the
\* same UID for which no EventMapping row exists causes no adapter write
\* when the two content hashes are equal, whatever the timestamps; it is
\* written (as a conflict) only when the hashes differ.
Unmapped(frame, uid) ==
    /\ Fetched(frame.caldav_events, uid) /\ Fetched(frame.google_events, uid)
    /\ ~IsSome(RowOf(frame, uid))

SameContent(frame, uid) ==
    CalDAVHash(DictGet(frame.caldav_events, "uid", uid)[1])
        = GoogleHash(DictGet(frame.google_events, "uid", uid)[1])

C12_EqualHashNoChange ==
    \A t \in DOMAIN run : \A uid \in UIDs :
        (CleanBidirectionalRun(t) /\ Unmapped(run[t], uid)) =>
            ((Wrote(run[t], "google", uid) \/ Wrote(run[t], "caldav", uid))
                <=> ~SameContent(run[t], uid))

\* C13: the resolution of a conflict is the side with the newer timestamp
\* when both events carry one and they differ, CalDAV when they are equal,
\* the side that carries a timestamp when only one does, and CalDAV when
\* neither does; ConflictResolver.resolve_conflict names the same winner.
NewerSide(c, g) ==
    IF c.last_modified # 0 /\ g.updated # 0 /\ c.last_modified # g.updated
    THEN IF c.last_modified > g.updated THEN "caldav" ELSE "google"
    ELSE IF c.last_modified # 0 /\ g.updated # 0 THEN "caldav"
    ELSE IF c.last_modified # 0 /\ g.updated = 0 THEN "caldav"
    ELSE IF c.last_modified = 0 /\ g.updated # 0 THEN "google"
    ELSE "caldav"

PendingConflicts ==
    {ch \in UNION {{run[t].conflicts[i] : i \in 1..Len(run[t].conflicts)} : t \in DOMAIN run} :
        ch.conflict_resolution # "none"}

C13_ConflictWinner ==
    \A ch \in PendingConflicts :
        LET c == ch.caldav_event[1]
            g == ch.google_event[1]
        IN  /\ ch.conflict_resolution = (IF NewerSide(c, g) = "caldav"
                                         THEN "caldav_wins" ELSE "google_wins")
            /\ resolve_conflict(c, g, TRUE) = NewerSide(c, g)

C13_Witness ==
    \E ch \in PendingConflicts :
        /\ ch.caldav_event[1].last_modified = ch.google_event[1].updated
        /\ ch.google_event[1].updated # 0
        /\ ch.conflict_resolution = "caldav_wins"

\* C14: in a bidirectional run without errors, a conflict resolved as
\* caldav_wins makes exactly one update on Google and no write on CalDAV, and
\* leaves the event_hash of the row equal to the hash of the CalDAV event; a
\* conflict resolved as google_wins makes exactly one update on CalDAV and no
\* write on Google, and leaves the hash of the Google event.
ConflictsOf(frame) ==
    LET cs == analyze_bidirectional_changes("bidirectional", frame.caldav_events,
                                            frame.google_events,
                                            frame.existing_mappings).conflicts
    IN  {cs[i] : i \in 1..Len(cs)}

Writes(frame, side, uid) ==
    {i \in 1..Len(frame.io) :
        frame.io[i].op # "get_events" /\ frame.io[i].side = side /\ frame.io[i].uid = uid}

OneUpdate(frame, side, uid) ==
    /\ Cardinality(Writes(frame, side, uid)) = 1
    /\ \A i \in Writes(frame, side, uid) : frame.io[i].op = "update_event"

HashOfRow(m, uid, hash) ==
    /\ \E r \in MappingRows(m) : r.caldav_uid = uid
    /\ \A r \in MappingRows(m) : r.caldav_uid = uid => r.event_hash = hash

C14_ConflictApplied ==
    \A t \in DOMAIN run :
        CleanBidirectionalRun(t) =>
            \A ch \in ConflictsOf(run[t]) :
                /\ ch.conflict_resolution = "caldav_wins" =>
                      /\ OneUpdate(run[t], "google", ch.event_uid)
                      /\ Writes(run[t], "caldav", ch.event_uid) = {}
                      /\ HashOfRow(run[t].mapping.id, ch.event_uid,
                                   CalDAVHash(ch.caldav_event[1]))
                /\ ch.conflict_resolution = "google_wins" =>
                      /\ OneUpdate(run[t], "caldav", ch.event_uid)
                      /\ Writes(run[t], "google", ch.event_uid) = {}
                      /\ HashOfRow(run[t].mapping.id, ch.event_uid,
                                   GoogleHash(ch.google_event[1]))

C14_Witness ==
    \E t \in DOMAIN run :
        /\ CleanBidirectionalRun(t)
        /\ \E ch \in ConflictsOf(run[t]) :
              /\ ch.conflict_resolution = "google_wins"
              /\ OneUpdate(run[t], "caldav", ch.event_uid)
              /\ HashOfRow(run[t].mapping.id, ch.event_uid, GoogleHash(ch.google_event[1]))

\* C15: the differ puts every fetched event in exactly one outcome class:
\* no event yields two changes, and an event found on one side only (in a
\* bidirectional run), or on the source side only (in a unidirectional
\* run), is not skipped: it yields a change of its own.
ChangesOf(frame) ==
    LET d == Diffed(frame, frame.existing_mappings)
    IN  d.to_google \o d.to_caldav \o d.conflicts

Count(s, field, key) == Cardinality({i \in 1..Len(s) : s[i][field] = key})

Analysed(t) == t \in DOMAIN tasks /\ tasks[t].pc \in {"apply", "finalize"} /\ ~run[t].raised

C15_OneOutcomePerEvent ==
    \A t \in DOMAIN run : \A uid \in UIDs :
        Analysed(t) =>
            LET nc == Count(run[t].caldav_events, "uid", uid)
                ng == Count(run[t].google_events, "uid", uid)
                n == Count(ChangesOf(run[t]), "event_uid", uid)
                direction == run[t].mapping.sync_direction
            IN  nc + ng > 0 =>
                    /\ n <= (IF nc > ng THEN nc ELSE ng)
                    /\ (direction # "google_to_caldav" /\ ng = 0) => n = nc
                    /\ (direction # "caldav_to_google" /\ nc = 0) => n = ng

\* C16: a caldav_to_google run makes no create, update or delete call on
\* CalDAV, and a google_to_caldav run makes none on Google.
SideWrites(frame, side) ==
    {i \in 1..Len(frame.io) : frame.io[i].op # "get_events" /\ frame.io[i].side = side}

C16_OneWayWritesOneSide ==
    \A t \in DOMAIN run :
        /\ run[t].mapping.sync_direction = "caldav_to_google" =>
              SideWrites(run[t], "caldav") = {}
        /\ run[t].mapping.sync_direction = "google_to_caldav" =>
              SideWrites(run[t], "google") = {}

C16_Witness ==
    \E t \in DOMAIN run :
        /\ run[t].mapping.sync_direction = "google_to_caldav"
        /\ SideWrites(run[t], "caldav") # {}
        /\ run[t].result.inserted_count + run[t].result.updated_count
              + run[t].result.deleted_count > 0

\* C17: in a one-way run without errors, an event fetched from the target
\* whose UID no source event carries is deleted from the target exactly when
\* an EventMapping row exists for the UID; when it is deleted, the row is
\* removed and deleted_count counts the event once.
CleanOneWayRun(t) ==
    /\ tasks[t].pc = "finalize"
    /\ run[t].mapping.sync_direction # "bidirectional"
    /\ ~run[t].raised
    /\ run[t].result.error_count = 0

Target(frame) == IF frame.mapping.sync_direction = "caldav_to_google" THEN "google" ELSE "caldav"

TargetOnly(frame, uid) ==
    IF Target(frame) = "google"
    THEN Fetched(frame.google_events, uid) /\ ~Fetched(frame.caldav_events, uid)
    ELSE Fetched(frame.caldav_events, uid) /\ ~Fetched(frame.google_events, uid)

Deletes(frame, uid) ==
    {i \in Writes(frame, Target(frame), uid) : frame.io[i].op = "delete_event"}

C17_DeleteIffMapped ==
    \A t \in DOMAIN run :
        CleanOneWayRun(t) =>
            /\ \A uid \in UIDs :
                  TargetOnly(run[t], uid) =>
                    /\ (Deletes(run[t], uid) # {}) <=> IsSome(RowOf(run[t], uid))
                    /\ Deletes(run[t], uid) # {} =>
                          /\ Cardinality(Deletes(run[t], uid)) = 1
                          /\ \A r \in MappingRows(run[t].mapping.id) : r.caldav_uid # uid
            /\ run[t].result.deleted_count
                  = Cardinality({uid \in UIDs : TargetOnly(run[t], uid)
                                                  /\ Deletes(run[t], uid) # {}})

C17_Witness ==
    \E t \in DOMAIN run : \E uid \in UIDs :
        /\ CleanOneWayRun(t)
        /\ TargetOnly(run[t], uid)
        /\ Deletes(run[t], uid) # {}
        /\ run[t].result.deleted_count = 1

\* C18: the adapter writes of one run come in a fixed order: the inserts in
\* ascending order of UID, then the updates in ascending order of UID, then
\* the deletes in ascending order of UID.
Rank(op) == IF op = "create_event" THEN 1 ELSE IF op = "update_event" THEN 2 ELSE 3

C18_StableWriteOrder ==
    \A t \in DOMAIN run :
        \A i, j \in 1..Len(run[t].io) :
            (i < j /\ run[t].io[i].op # "get_events" /\ run[t].io[j].op # "get_events") =>
                /\ Rank(run[t].io[i].op) <= Rank(run[t].io[j].op)
                /\ run[t].io[i].op = run[t].io[j].op => run[t].io[i].uid <= run[t].io[j].uid

\* C19: a webhook is in flight, or queued for retry, only for a run whose
\* SyncLog row has already been written with a terminal status.
Posting(t) == t \in DOMAIN tasks /\ tasks[t].pc \in {"post", "posted"}

C19_WebhookAfterLog ==
    /\ \A t \in DOMAIN run :
          Posting(t) => /\ run[t].sync_log_id \in DOMAIN sync_logs
                        /\ LogTerminal(run[t].sync_log_id)
    /\ \A r \in webhook_retries :
          r.sync_log_id \in DOMAIN sync_logs /\ LogTerminal(r.sync_log_id)

C19_Witness ==
    \E t \in DOMAIN run :
        /\ tasks[t].pc = "post"
        /\ run[t].sync_log_id \in DOMAIN sync_logs
        /\ sync_logs[run[t].sync_log_id].status = "success"
        /\ sync_logs[run[t].sync_log_id].inserted_count = 1

\* C20: the payload of a webhook, sent or queued for retry, carries the
\* status stored in the SyncLog row of the run, never running, and the
\* final counts of the run.
PayloadFinal(payload, id) ==
    /\ id \in DOMAIN sync_logs
    /\ payload.status = sync_logs[id].status
    /\ payload.status # "running"
    /\ payload.inserted = sync_logs[id].inserted_count
    /\ payload.updated = sync_logs[id].updated_count
    /\ payload.deleted = sync_logs[id].deleted_count

C20_PayloadFinalStatus ==
    /\ \A t \in DOMAIN run :
          Posting(t) => PayloadFinal(WebhookPayload(run[t].mapping, run[t].sync_log),
                                     run[t].sync_log_id)
    /\ \A r \in webhook_retries : PayloadFinal(r.payload, r.sync_log_id)

\* C21: a run that got past fetch and diff is given the status success when
\* its error_count is 0, partial_failure when error_count > 0 and at least
\* one change was applied, and failure otherwise.
Finalizing(t) ==
    /\ Holds(t, "finalize")
    /\ t \notin DOMAIN tasks' \/ tasks'[t].pc # "finalize"

Applied(result) == result.inserted_count + result.updated_count + result.deleted_count

C21_FinalStatusByCounts ==
    [][\A t \in DOMAIN run :
          (Finalizing(t) /\ ~run[t].raised) =>
              LET status == sync_logs'[run[t].sync_log_id].status
                  result == run[t].result
              IN  /\ result.error_count = 0 => status = "success"
                  /\ (result.error_count > 0 /\ Applied(result) > 0) =>
                        status = "partial_failure"
                  /\ (result.error_count > 0 /\ Applied(result) = 0) => status = "failure"]_vars

C21_Witness ==
    \E id \in DOMAIN sync_logs :
        /\ sync_logs[id].status = "partial_failure"
        /\ sync_logs[id].error_count = 1
        /\ sync_logs[id].inserted_count = 1

\* C22: when the application of one change raises, error_count grows by one
\* and one message is appended, the other counters and the EventMapping rows
\* stay as they are, the changes not yet applied stay queued, and the run
\* reaches its end only when every change has been attempted.
Pending(frame) == Len(frame.to_google) + Len(frame.to_caldav) + Len(frame.conflicts)

ChangeRaised(t) ==
    /\ Holds(t, "apply")
    /\ t \in DOMAIN run'
    /\ run'[t].result.error_count # run[t].result.error_count

C22_ErrorsAreIsolated ==
    /\ [][\A t \in DOMAIN run :
            ChangeRaised(t) =>
                /\ run'[t].result.error_count = run[t].result.error_count + 1
                /\ run'[t].result.errors = run[t].result.errors + 1
                /\ Applied(run'[t].result) = Applied(run[t].result)
                /\ event_mappings' = event_mappings
                /\ Pending(run'[t]) = Pending(run[t]) - 1
                /\ Pending(run'[t]) > 0 => tasks'[t].pc = "apply"]_vars
    /\ [](\A t \in DOMAIN run :
            (t \in DOMAIN tasks /\ tasks[t].pc = "finalize") => Pending(run[t]) = 0)

C22_Witness ==
    \E t \in DOMAIN run :
        /\ tasks[t].pc = "finalize"
        /\ run[t].result.error_count = 1
        /\ run[t].result.inserted_count = 1
        /\ Len(run[t].io) = 4
        /\ \E r \in event_mappings : r.caldav_uid = run[t].io[4].uid

\* C23: a run in which the fetch of the events from CalDAV or from Google
\* raised ends with the status failure, an error_count greater than zero
\* and the error recorded in its errors, and makes no adapter write.
FetchRaised(t) ==
    /\ t \in DOMAIN tasks /\ tasks[t].pc = "finalize"
    /\ run[t].raised
    /\ \E i \in 1..Len(run[t].io) : run[t].io[i].op = "get_events"

C23_FetchFailureIsFailure ==
    \A t \in DOMAIN run :
        FetchRaised(t) =>
            /\ FinalStatus(run[t].result, run[t].raised) = "failure"
            /\ run[t].result.error_count > 0
            /\ run[t].result.errors > 0
            /\ SideWrites(run[t], "caldav") = {} /\ SideWrites(run[t], "google") = {}

\* C24: a run in whose apply phase a Google call failed with an auth error
\* (the token was valid when the events were fetched) is aborted there: no
\* later change is attempted, so the auth error is its only error, its
\* status is failure, and the mapping stays enabled.
AuthFailedInApply(t) ==
    /\ t \in DOMAIN tasks /\ tasks[t].pc = "finalize"
    /\ ~run[t].raised
    /\ ~google_token

C24_AuthErrorAborts ==
    \A t \in DOMAIN run :
        AuthFailedInApply(t) =>
            /\ FinalStatus(run[t].result, run[t].raised) = "failure"
            /\ run[t].result.error_count = 1
            /\ Len(run[t].io) - 2 = Applied(run[t].result) + 1
            /\ mappings[run[t].mapping.id].enabled

\* C25: when the insertion of the running SyncLog row fails, the run ends
\* without side effects: nothing was fetched or written, the mapping row
\* (last_sync_at, last_sync_status) is left as it was and no webhook is
\* posted (the task ends with the finalize step)
OpenFailed(t) == run[t].sync_log_id = 0 /\ run[t].raised

C25_OpenFailureNoSideEffects ==
    [][\A t \in DOMAIN run :
          (Finalizing(t) /\ OpenFailed(t)) =>
              /\ run[t].io = <<>>
              /\ mappings' = mappings
              /\ t \notin DOMAIN tasks']_vars

\* C26: at the end of every run inserted_count, updated_count and
\* deleted_count are the numbers of create, update and delete adapter calls
\* of the run that returned, and every call that raised is counted in
\* error_count
Calls(frame, op, ok) ==
    {i \in 1..Len(frame.io) : frame.io[i].op = op /\ frame.io[i].ok = ok}

Failed(frame) ==
    Calls(frame, "create_event", FALSE) \cup Calls(frame, "update_event", FALSE)
        \cup Calls(frame, "delete_event", FALSE)

C26_CountersMatchCalls ==
    \A t \in DOMAIN run :
        tasks[t].pc = "finalize" =>
            /\ run[t].result.inserted_count = Cardinality(Calls(run[t], "create_event", TRUE))
            /\ run[t].result.updated_count = Cardinality(Calls(run[t], "update_event", TRUE))
            /\ run[t].result.deleted_count = Cardinality(Calls(run[t], "delete_event", TRUE))
            /\ run[t].result.error_count >= Cardinality(Failed(run[t]))

\* C27: at every instant event_mappings holds at most one row for each
\* pair of mapping id and CalDAV UID
C27_UniqueEventMapping ==
    \A r1, r2 \in event_mappings :
        (r1.mapping_id = r2.mapping_id /\ r1.caldav_uid = r2.caldav_uid) => r1 = r2

\* a run has written an event whose row existed when the run started
C27_Witness ==
    \E t \in DOMAIN run :
        /\ run[t].result.updated_count = 1
        /\ \E i \in Calls(run[t], "update_event", TRUE) :
              /\ \E k \in 1..Len(run[t].existing_mappings) :
                    run[t].existing_mappings[k].caldav_uid = run[t].io[i].uid
              /\ \E r \in event_mappings :
                    r.mapping_id = run[t].mapping.id /\ r.caldav_uid = run[t].io[i].uid

\* C28: send_sync_result_webhook adds a WebhookRetry row exactly when the
\* mapping has a webhook_url and the POST failed, and that row has
\* attempt_count 0 and next_retry_at = now + delays[0]; a task that ends
\* without a POST (no webhook_url) or after a successful one adds no row
SyncTaskEnds(t) ==
    t \in DOMAIN tasks /\ tasks[t].kind # "retries" /\ t \notin DOMAIN tasks'

C28_RetryQueuedIffPostFails ==
    [][\A t \in DOMAIN run :
          SyncTaskEnds(t) =>
              IF tasks[t].pc = "posted" /\ ~run[t].webhook_ok
              THEN \E r \in webhook_retries' \ webhook_retries :
                      /\ webhook_retries' = webhook_retries \cup {r}
                      /\ r.sync_log_id = run[t].sync_log_id
                      /\ r.attempt_count = 0
                      /\ r.next_retry_at = clock + retry_delays[1]
              ELSE webhook_retries' = webhook_retries]_vars

\* The steps that begin a pass of the retry processor and that commit it
PassStarts == 0 \in DOMAIN tasks /\ tasks[0].pc = "idle" /\ clock' # clock

PassCommits == 0 \in DOMAIN tasks /\ tasks[0].pc = "posted" /\ tasks'[0].pc = "idle"

Attempted == {run'[0].pending_retries[i] : i \in 1..Len(run'[0].pending_retries)}

RetryOf(rows, id) == {r \in rows : r.sync_log_id = id}

\* C29 as stated: a pass attempts exactly the rows with next_retry_at <= now
\* and attempt_count < max_attempts; a row whose attempt succeeds is
\* deleted, a row whose attempt fails has attempt_count incremented by one
\* and next_retry_at = now + delays[min(attempt_count, len(delays) - 1)];
\* no other row is touched
C29_RetryPass ==
    [][/\ PassStarts => Attempted = Due(webhook_retries, clock')
       /\ PassCommits =>
             \A r \in webhook_retries :
                 IF r \in Due(webhook_retries, clock)
                 THEN \/ RetryOf(webhook_retries', r.sync_log_id) = {}
                      \/ \E n \in webhook_retries' :
                            /\ RetryOf(webhook_retries', r.sync_log_id) = {n}
                            /\ n.attempt_count = r.attempt_count + 1
                            /\ n.next_retry_at = clock + retry_delay(n.attempt_count)
                 ELSE r \in webhook_retries']_vars

\* C29 (amended): as above, but a failed attempt sets next_retry_at only
\* while the incremented attempt_count is below max_attempts; the failure
\* that reaches max_attempts leaves next_retry_at as it was
C29_RetryPassBelowMax ==
    [][/\ PassStarts => Attempted = Due(webhook_retries, clock')
       /\ PassCommits =>
             \A r \in webhook_retries :
                 IF r \in Due(webhook_retries, clock)
                 THEN \/ RetryOf(webhook_retries', r.sync_log_id) = {}
                      \/ \E n \in webhook_retries' :
                            /\ RetryOf(webhook_retries', r.sync_log_id) = {n}
                            /\ n.attempt_count = r.attempt_count + 1
                            /\ n.next_retry_at =
                                  IF n.attempt_count < n.max_attempts
                                  THEN clock + retry_delay(n.attempt_count)
                                  ELSE r.next_retry_at
                 ELSE r \in webhook_retries']_vars

\* one pass has deleted a delivered row and another has left a row with
\* max_attempts failed retries and the next_retry_at of its last attempt
C29_Witness ==
    /\ \E id \in DOMAIN sync_logs : RetryOf(webhook_retries, id) = {}
    /\ \E r \in webhook_retries :
          r.attempt_count = r.max_attempts /\ r.next_retry_at = r.failed_at

\* The delay the configured list gives for the k-th retry (k from 0)
DelayOf(k) == IF k + 1 <= Len(retry_delays) THEN retry_delays[k + 1]
              ELSE retry_delays[Len(retry_delays)]

AtMost(a, b) == IF a <= b THEN a ELSE b

\* C30 as stated: a webhook whose delivery has failed N+1 times in a row
\* (failures = N+1) has attempt_count = min(max_attempts, N+1), and
\* next_retry_at follows the last failure by the delay of the list
C30_RetryDecay ==
    \A r \in webhook_retries :
        /\ r.attempt_count = AtMost(r.max_attempts, r.failures)
        /\ r.attempt_count < r.max_attempts =>
              r.next_retry_at = r.failed_at + DelayOf(r.attempt_count)

\* C30 (amended): after N+1 failed deliveries in a row (the first POST and
\* N retries) attempt_count = min(max_attempts, N), and while it is below
\* max_attempts next_retry_at follows the last failure by
\* delays[min(attempt_count, len(delays) - 1)]
C30_RetryDecayFromZero ==
    \A r \in webhook_retries :
        /\ r.attempt_count = AtMost(r.max_attempts, r.failures - 1)
        /\ r.attempt_count < r.max_attempts =>
              r.next_retry_at = r.failed_at + DelayOf(r.attempt_count)

\* the first POST and two retries of a payload have failed
C30_Witness ==
    \E r \in webhook_retries :
        /\ r.failures = 3 /\ r.attempt_count = 2
        /\ r.next_retry_at = r.failed_at + retry_delays[3]
\* ---------------------------------------------------------------- delete
\* A delete that leaves the rows of the mapping behind
DeleteMappingKeepRows(m) ==
    /\ loop = 0
    /\ api_calls < MaxApiCalls
    /\ api_calls' = api_calls + 1
    /\ m \in DOMAIN mappings
    /\ jobs' = jobs \ {m}
    /\ mappings' = Remove(mappings, m)
    /\ UNCHANGED <<caldav_accounts, google_token, event_mappings, sync_logs, webhook_retries,
                   google_service, caldav_cal, google_cal, clock, externals, faults,
                   instances, active_jobs, loopVars, idVars>>

\* DELETE /mappings/{id}: the handler runs on the event loop without
\* suspending; it removes the job, bulk-deletes the EventMapping rows of
\* the mapping and deletes the mapping, whose SyncLog rows go with it (the
\* relationship cascades "all, delete-orphan"). It does not look at
\* active_jobs.
DeleteMapping(m) ==
    /\ loop = 0
    /\ api_calls < MaxApiCalls
    /\ api_calls' = api_calls + 1
    /\ m \in DOMAIN mappings
    /\ jobs' = jobs \ {m}
    /\ event_mappings' = {r \in event_mappings : r.mapping_id # m}
    /\ sync_logs' = [id \in {i \in DOMAIN sync_logs : sync_logs[i].mapping_id # m}
                        |-> sync_logs[id]]
    /\ mappings' = Remove(mappings, m)
    /\ UNCHANGED <<caldav_accounts, google_token, webhook_retries,
                   google_service, caldav_cal, google_cal, clock, externals, faults,
                   instances, active_jobs, loopVars, idVars>>

\* One mapping with a webhook and an event to sync, run on demand and by
\* its interval trigger, and deleted through the API at any moment
DeleteInit ==
    /\ mappings = (1 :> MappingRow("bidirectional", TRUE))
    /\ Started({1}, MaxTasks)

DeleteNext ==
    \/ TriggerManual(1)
    \/ Tick(1)
    \/ \E t \in DOMAIN tasks : TaskStart(t)
    \/ \E t \in DOMAIN tasks : RunOpenSyncLog(t)
    \/ \E t \in DOMAIN tasks : RunFetch(t)
    \/ \E t \in DOMAIN tasks : RunDiff(t)
    \/ \E t \in DOMAIN tasks : RunApply(t)
    \/ \E t \in DOMAIN tasks : RunFinalize(t)
    \/ \E t \in DOMAIN tasks, ok \in BOOLEAN : PostResponse(t, ok)
    \/ \E t \in DOMAIN tasks : PostResume(t)
    \/ DeleteMapping(1)

DeleteSpec == DeleteInit /\ [][DeleteNext]_vars

\* --------------------------------------------------------------- shutdown
\* The shutdown half of lifespan: WebhookRetryProcessor.stop cancels the
\* retry task, SyncScheduler.stop shuts APScheduler down, whose asyncio
\* executor cancels the futures of its jobs, and the event loop cancels the
\* tasks left when it closes. The shutdown code runs on the event loop, so
\* every task is either not yet started or suspended in an await, and the
\* only await of a run that suspends is the webhook POST: CancelledError
\* is raised there, passes the `except Exception` clauses of send_webhook
\* and sync_mapping, and the finally of _sync_mapping_with_lock releases
\* the mapping. Nothing is triggered afterwards.
Shutdown ==
    /\ loop = 0
    /\ jobs # {}
    /\ tasks' = <<>>
    /\ run' = <<>>
    /\ ready' = <<>>
    /\ jobs' = {}
    /\ instances' = [m \in DOMAIN instances |-> 0]
    /\ active_jobs' = {}
    /\ task_limit' = 0
    /\ UNCHANGED <<dbVars, google_service, worldVars, loop, next_task, next_id>>

ShutdownNext == RetryNext \/ Shutdown

ShutdownSpec == RetryInit /\ [][ShutdownNext]_vars

\* ------------------------------------------------------------ conversion
\* The longest recurrence list of a Google event
MaxLines == 2

\* The lines of a recurrence list: a rule and an exception date
RecurrenceLines == {<<"RRULE:", "FREQ=WEEKLY">>, <<"EXDATE:", "20240101">>}

\* The recurrence lists: empty, or lines of which one is a rule
RecurrenceLists ==
    {lines \in UNION {[1..n -> RecurrenceLines] : n \in 0..MaxLines} :
        lines = <<>> \/ \E i \in 1..Len(lines) : lines[i][1] = "RRULE:"}

\* The events the Google API returns: each has an id and an iCalUID
GoogleEvents ==
    {GoogleEvent(id, uid, summary, recurrence, updated) :
        id \in 1..2, uid \in UIDs, summary \in {"Meeting", "Lunch"},
        recurrence \in RecurrenceLists, updated \in 1..2}

\* EventNormalizer.google_to_caldav applied to the event of the calendar
ConvertToCalDAV ==
    /\ caldav_cal[1] = {}
    /\ \E g \in google_cal[1] :
          caldav_cal' = [caldav_cal EXCEPT ![1] = {google_to_caldav(g)}]
    /\ UNCHANGED <<dbVars, google_service, google_cal, clock, externals, api_calls,
                   faults, schedVars, loopVars, idVars>>

\* EventNormalizer.caldav_to_google applied to the converted event; the
\* result (which has no id yet) is put beside the original
ConvertToGoogle ==
    /\ \A g \in google_cal[1] : g.id # 0
    /\ \E c \in caldav_cal[1] :
          google_cal' = [google_cal EXCEPT ![1] = @ \cup {caldav_to_google(c)}]
    /\ UNCHANGED <<dbVars, google_service, caldav_cal, clock, externals, api_calls,
                   faults, schedVars, loopVars, idVars>>

\* One event fetched from Google, nothing converted yet
ConvertInit ==
    /\ mappings = (1 :> MappingRow("google_to_caldav", FALSE))
    /\ Booted({1}, 0)
    /\ caldav_cal = (1 :> {})
    /\ \E g \in GoogleEvents : google_cal = (1 :> {g})
    /\ clock = 1
    /\ next_id = 1

ConvertNext == ConvertToCalDAV \/ ConvertToGoogle

ConvertSpec == ConvertInit /\ [][ConvertNext]_vars

\* ------------------------------------------------------- Google requests
\* _execute_with_retry(request, max_retries=3)
request_max_retries == 3

\* What request.execute() can do: return, raise HttpError with a status
\* (429 carries a Retry-After header, absent = 1), or raise another
\* exception: a network error or the invalid_grant of a revoked token
Responses ==
    {[kind |-> "ok", status |-> 200, retry_after |-> 0]}
      \cup {[kind |-> "http", status |-> 429, retry_after |-> ra] : ra \in {1, 2}}
      \cup {[kind |-> "http", status |-> st, retry_after |-> 0] : st \in {404, 500, 503}}
      \cup {[kind |-> "error", status |-> 0, retry_after |-> 0],
            [kind |-> "invalid_grant", status |-> 0, retry_after |-> 0]}

\* The frame of one _execute_with_retry call: the loop variable, the
\* responses received, the sleeps made and how the call ended
RequestFrame ==
    [attempt |-> 0, responses |-> <<>>, slept |-> <<>>, outcome |-> "pending"]

\* One iteration of the for loop of _execute_with_retry
Execute(frame, response) ==
    LET last == ~(frame.attempt < request_max_retries - 1)
        seen == [frame EXCEPT !.responses = Append(@, response)]
    IN  IF response.kind = "ok" THEN [seen EXCEPT !.outcome = "returned"]
        ELSE IF response.kind = "http"
        THEN IF response.status = 429 /\ ~last
             THEN [seen EXCEPT !.slept = Append(@, response.retry_after),
                               !.attempt = @ + 1]
             ELSE [seen EXCEPT !.outcome = "raised"]
        ELSE IF response.kind = "invalid_grant" THEN [seen EXCEPT !.outcome = "raised"]
        ELSE IF ~last
        THEN [seen EXCEPT !.slept = Append(@, 2 ^ frame.attempt), !.attempt = @ + 1]
        ELSE [seen EXCEPT !.outcome = "raised"]

\* request.execute() answers and the loop body runs; time.sleep blocks the
\* thread for the delay
ExecuteStep ==
    /\ 1 \in DOMAIN run /\ run[1].outcome = "pending"
    /\ run[1].attempt < request_max_retries
    /\ \E response \in Responses :
          LET after == Execute(run[1], response)
          IN  /\ run' = [run EXCEPT ![1] = after]
              /\ clock' = IF Len(after.slept) > Len(run[1].slept)
                          THEN clock + after.slept[Len(after.slept)] ELSE clock
              /\ google_service' = IF response.kind = "invalid_grant" THEN FALSE
                                   ELSE google_service
    /\ UNCHANGED <<dbVars, caldav_cal, google_cal, externals, api_calls, faults,
                   schedVars, tasks, loop, ready, idVars>>

\* A Google client with its service built, about to execute one request
RequestInit ==
    /\ mappings = <<>>
    /\ caldav_accounts = <<>>
    /\ google_token = TRUE
    /\ google_service = TRUE
    /\ event_mappings = {}
    /\ sync_logs = <<>>
    /\ webhook_retries = {}
    /\ externals = 0
    /\ api_calls = 0
    /\ faults = 0
    /\ jobs = {}
    /\ instances = <<>>
    /\ active_jobs = {}
    /\ tasks = <<>>
    /\ run = (1 :> RequestFrame)
    /\ loop = 0
    /\ ready = <<>>
    /\ next_task = 1
    /\ task_limit = 0
    /\ caldav_cal = <<>>
    /\ google_cal = <<>>
    /\ clock = 1
    /\ next_id = 1

RequestNext == ExecuteStep

RequestSpec == RequestInit /\ [][RequestNext]_vars

\* ------------------------------------------------------------------ C31
\* The rows that have used up their attempts
Exhausted(rows) == {r \in rows : r.attempt_count >= r.max_attempts}

\* C31: a WebhookRetry row whose attempt_count has reached max_attempts is
\* never selected for another POST and is neither deleted nor changed by
\* a retry pass; it leaves the table only through the cleanup, and only
\* once it is older than days_old days
C31_ExhaustedRetained ==
    [][/\ \A r \in Exhausted(webhook_retries) :
             r \notin webhook_retries' => r.created_at < clock' - MaxAge
       /\ 0 \in DOMAIN run' =>
             \A i \in 1..Len(run'[0].pending_retries) :
                 run'[0].pending_retries[i] \notin Exhausted(webhook_retries)]_vars

\* The cleanup of a pass in minute 0 has removed the exhausted row of run
\* 1, which had become older than days_old days
C31_Witness ==
    /\ clock > GcStart /\ Minute(clock) = 0
    /\ 0 \in DOMAIN tasks /\ tasks[0].pc = "idle"
    /\ 1 \in DOMAIN sync_logs
    /\ RetryOf(webhook_retries, 1) = {}

\* ------------------------------------------------------------------ C32
\* The adapter call that a step of run t has just made, if any
CallMade(t) ==
    IF t \in DOMAIN run /\ t \in DOMAIN run' /\ Len(run'[t].io) = Len(run[t].io) + 1
    THEN Some(run'[t].io[Len(run'[t].io)])
    ELSE None

\* A step in which nothing failed but, possibly, the call itself: the
\* Google credential is valid and neither the network nor the database
\* raised
NoFault == faults' = faults /\ google_token

\* C32: delete_event returns success on both adapters, also when the event
\* is no longer on the server, so that (unless the call fails for another
\* reason) the engine removes the EventMapping row and counts the delete
C32_DeleteIdempotent ==
    [][\A t \in DOMAIN run :
          \A call \in {c \in {CallMade(t)} : IsSome(c)} :
             call[1].op = "delete_event" /\ NoFault
                => /\ call[1].ok
                   /\ run'[t].result.deleted_count = run[t].result.deleted_count + 1
                   /\ run'[t].result.error_count = run[t].result.error_count
                   /\ ~\E r \in event_mappings' :
                         r.mapping_id = run[t].mapping.id /\ r.caldav_uid = call[1].uid]_vars

\* ------------------------------------------------------------------ C33
\* The HTTP failures the retry is for: 429 and 5xx
Transient(response) ==
    response.kind = "http" /\ (response.status = 429 \/ response.status >= 500)

\* C33: _execute_with_retry retries a request that fails transiently (429
\* after sleeping Retry-After seconds, 5xx after sleeping 2^attempt
\* seconds) and attempts a request at most request_max_retries times
C33_RetryTransient ==
    1 \in DOMAIN run /\ "responses" \in DOMAIN run[1] =>
        LET f == run[1]
        IN  /\ Len(f.responses) <= request_max_retries
            /\ \A i \in 1..Len(f.responses) :
                  Transient(f.responses[i]) /\ i < request_max_retries
                     => /\ Len(f.slept) >= i
                        /\ f.slept[i] = IF f.responses[i].status = 429
                                        THEN f.responses[i].retry_after
                                        ELSE 2 ^ (i - 1)
                        /\ f.outcome = "raised" => Len(f.responses) > i

\* ------------------------------------------------------------------ C34
\* An HTTP call of task t is in progress: the task is suspended in a POST
HttpInProgress(t) == t \in DOMAIN run /\ tasks[t].pc = "post"

\* C34: no database session is open while an HTTP call is in progress,
\* whether the call is made by the engine, by the webhook client at the
\* end of a run, or by the retry processor
C34_NoSessionAcrossHttp ==
    \A t \in DOMAIN tasks : HttpInProgress(t) => ~run[t].db

\* ------------------------------------------------------------------ C35
\* A step that shuts the process down
ShutdownStep == jobs # {} /\ jobs' = {} /\ tasks' = <<>>

\* C35: a run that is cancelled by the shutdown leaves its SyncLog row
\* finalized with status failure and with an error recorded (an error
\* string containing "cancelled")
C35_CancelledRunFails ==
    [][ShutdownStep =>
          \A t \in DOMAIN run :
             tasks[t].kind # "retries" /\ run[t].sync_log_id \in DOMAIN sync_logs
                => /\ sync_logs'[run[t].sync_log_id].status = "failure"
                   /\ sync_logs'[run[t].sync_log_id].errors > 0]_vars

\* ------------------------------------------------------------------ C36
\* C36: converting a Google event to CalDAV form and back preserves its
\* content hash
C36_RoundTripHash ==
    1 \in DOMAIN google_cal =>
        \A g \in google_cal[1], back \in google_cal[1] :
            g.id # 0 /\ back.id = 0 => GoogleHash(back) = GoogleHash(g)

\* ------------------------------------------------------------------ C37
\* C37: a mapping id is in active_jobs only while a job of the mapping is
\* running the engine, so that whenever the job ends (the engine returned
\* or raised, or the mapping was missing or disabled) the id is out of the
\* set; and no id stays in the set forever
C37_ActiveJobsReleased ==
    /\ [](\A m \in active_jobs : RunInFlight(m))
    /\ \A m \in MappingIds : []<>(m \notin active_jobs)

\* The job of a mapping has ended with an engine run that raised, and the
\* mapping is out of active_jobs while another mapping is still in it
C37_Witness ==
    \E id \in DOMAIN sync_logs :
        /\ sync_logs[id].status = "failure" /\ sync_logs[id].errors > 0
        /\ sync_logs[id].mapping_id \notin active_jobs
        /\ ~RunInFlight(sync_logs[id].mapping_id)
        /\ active_jobs # {}

\* ------------------------------------------------------------------ C38
\* C38: deleting a mapping while a run of it is in flight leaves no
\* EventMapping or SyncLog row that references the deleted mapping: once
\* no run is in flight, every such row refers to an existing mapping
C38_NoOrphanRows ==
    run = <<>> =>
        /\ \A r \in event_mappings : r.mapping_id \in DOMAIN mappings
        /\ \A id \in DOMAIN sync_logs : sync_logs[id].mapping_id \in DOMAIN mappings

\* The mapping was deleted while a run of it, which had written a SyncLog
\* row, was waiting for its webhook POST; the POST has ended and the run
\* is about to resume
C38_Witness ==
    \E t \in DOMAIN run :
        /\ tasks[t].pc = "posted"
        /\ run[t].mapping.id \notin DOMAIN mappings
        /\ run[t].sync_log_id # 0
        /\ run[t].result.inserted_count > 0

\* ------------------------------------------------------------------ C39
\* C39: when send_sync_result_webhook has made its delivery attempt for a
\* run with a webhook_url, the SyncLog row of the run has webhook_sent
\* true and webhook_status equal to the outcome of the delivery, and its
\* status and counters are as before
C39_WebhookOutcomeRecorded ==
    [][\A t \in DOMAIN run :
          /\ tasks[t].pc = "posted" /\ tasks[t].kind # "retries"
          /\ t \notin DOMAIN run'
          /\ run[t].sync_log_id \in DOMAIN sync_logs
          => /\ run[t].sync_log_id \in DOMAIN sync_logs'
             /\ sync_logs'[run[t].sync_log_id] =
                   [sync_logs[run[t].sync_log_id] EXCEPT
                       !.webhook_sent = TRUE,
                       !.webhook_status = IF run[t].webhook_ok THEN "success"
                                          ELSE "failure"]]_vars

====
